---- MODULE Spec2Model ----
(***************************************************************************)
(* Model of ttclock: the browser-session lifecycle of TimeCheckAutomation  *)
(* (src/ttclock/automation.py), its notifier (src/ttclock/utils.py) and    *)
(* the command-line driver with its signal handler (src/ttclock/cli.py).   *)
(*                                                                         *)
(* One Python thread runs main(); a signal handler may run between any two *)
(* of its steps.  The handler calls cleanup() and then sys.exit(0), which  *)
(* raises SystemExit at the interrupted statement.  A pending exception is *)
(* the variable exc; pc is the statement about to be executed.             *)
(***************************************************************************)
EXTENDS Integers, Sequences, FiniteSets, TLC

\* ---------------------------------------------------------------- bounds
MaxRetriesArg == 3
MaxSignals == 1
MaxButtons == 3
MaxCalls == 2
MaxRows == 4
MaxHtCalls == 2

\* ------------------------------------------------------ program constants
RetryDelays == {1, 5}
Actions == {"status", "in", "out", "switch", "auto-out"}
ClockActions == {"in", "out", "switch"}
ExpectedErrors == {"PlaywrightTimeoutError", "PlaywrightError", "ValueError", "RuntimeError"}
PlaywrightErrors == {"PlaywrightTimeoutError", "PlaywrightError"}
PostOutcomes == {"ok", "RequestException", "Exception"}
CallOutcomes == {"ok", "raise"}

VARIABLES
  envTopic, url, username, password, action, max_retries, retry_delay,
  quiet, ntfy_topic, notifications_enabled, browser, page, playwright,
  default_timeout, instance,
  pc, exc, cctx, resume, inHandler, signals,
  retry_count, last_exception, lstep, giret, gi_status, time_left,
  ht_action, ht_phase, is_clocked_in, target_action, ht_result,
  clockedIn,
  closeCalls, stopCalls, sleeps, attempts, notifLog, shots, clicks,
  lastEvent, released, sessionInitialized, cleanupRaised,
  closeRaised, loginFailed, exit_code, stdout,
  failures, stayTimedOut, modalCalls, htReturns, clock_buttons,
  first_clock, time_worked, date, dateWarnings, outDisabled, tableRows, runOutcome, loginDone, gotos, htTrace, calls

inputVars == <<envTopic, url, username, password, action, max_retries, retry_delay>>
objVars == <<quiet, ntfy_topic, notifications_enabled, browser, page, playwright,
            default_timeout, instance>>
ctlVars == <<pc, exc, cctx, resume, inHandler, signals>>
sdVars == <<retry_count, last_exception>>
giVars == <<giret, gi_status, time_left>>
htVars == <<ht_action, ht_phase, is_clocked_in, target_action, ht_result>>
histVars == <<closeCalls, stopCalls, sleeps, attempts, notifLog, shots, clicks,
              lastEvent, released, sessionInitialized, cleanupRaised, closeRaised, loginFailed, exit_code, stdout>>
pageVars == <<clockedIn, outDisabled, tableRows>>
traceVars == <<failures, stayTimedOut, modalCalls, htReturns, runOutcome, loginDone, gotos, htTrace, calls>>
resultVars == <<clock_buttons, first_clock, time_worked, date, dateWarnings>>
vars == <<inputVars, objVars, ctlVars, sdVars, lstep, giVars, htVars, pageVars, histVars,
          traceVars, resultVars>>

\* ------------------------------------------------------------- notifier
\* A notifier that ignores force.
ShouldDeliverNoForce(topic, enabled, force) ==
  /\ topic # ""
  /\ enabled

\* utils.send_notification: the two early returns.
ShouldDeliver(topic, enabled, force) ==
  /\ topic # ""
  /\ (enabled \/ force)

\* A notifier whose only except clause is the one for RequestException.
CaughtBySendRequestOnly(o) ==
  o = "RequestException"

\* utils.send_notification: the two except clauses around requests.post.
CaughtBySend(o) ==
  o \in {"RequestException", "Exception"}

\* utils.send_notification as a whole: was a POST issued, did it raise.
send_notification(topic, enabled, force, o) ==
  LET posted == ShouldDeliver(topic, enabled, force)
  IN  [posted |-> posted,
       raised |-> posted /\ o # "ok" /\ ~CaughtBySend(o)]

\* TimeCheckAutomation.__init__: the topic is dropped in quiet mode.
InitTopic(q, envHasTopic) ==
  IF ~q /\ envHasTopic THEN "topic" ELSE ""

\* TimeCheckAutomation.__init__: notifications_enabled.
InitEnabled(q, topic) ==
  ~q /\ topic # ""

\* cli.main: quiet=args.quiet or not enable_notifications.
MainQuiet(aq, an, envHasTopic) ==
  aq \/ ~(~aq /\ an /\ envHasTopic)

\* One request to the notifier, as issued by the automation object.
Notified(force, priority, site) ==
  Append(notifLog,
         [force |-> force, priority |-> priority, site |-> site,
          posted |-> send_notification(ntfy_topic, notifications_enabled, force, "ok").posted])

\* utils.capture_screenshot: nothing is captured without a page.
Shot == IF page THEN shots + 1 ELSE shots

\* -------------------------------------------------------------- initial
Init ==
  /\ envTopic \in BOOLEAN
  /\ url \in BOOLEAN
  /\ username \in BOOLEAN
  /\ password \in BOOLEAN
  /\ action = "none"
  /\ max_retries = 0
  /\ retry_delay = 0
  /\ quiet = TRUE
  /\ ntfy_topic = ""
  /\ notifications_enabled = FALSE
  /\ browser = FALSE
  /\ page = FALSE
  /\ playwright = FALSE
  /\ default_timeout = 0
  /\ instance = FALSE
  /\ pc = "m_new"
  /\ exc = "none"
  /\ cctx = "none"
  /\ resume = [pc |-> "none", exc |-> "none"]
  /\ inHandler = FALSE
  /\ signals = 0
  /\ retry_count = 0
  /\ last_exception = "none"
  /\ lstep = 1
  /\ giret = "none"
  /\ gi_status = "none"
  /\ time_left = "none"
  /\ ht_action = "none"
  /\ ht_phase = "none"
  /\ is_clocked_in = FALSE
  /\ target_action = "none"
  /\ ht_result = "none"
  /\ clockedIn = FALSE
  /\ closeCalls = 0
  /\ stopCalls = 0
  /\ sleeps = <<>>
  /\ attempts = 0
  /\ notifLog = <<>>
  /\ shots = 0
  /\ clicks = <<>>
  /\ lastEvent = "none"
  /\ released = FALSE
  /\ sessionInitialized = FALSE
  /\ cleanupRaised = FALSE
  /\ closeRaised = FALSE
  /\ loginFailed = FALSE
  /\ exit_code = 0
  /\ stdout = 0
  /\ failures = <<>>
  /\ stayTimedOut = FALSE
  /\ modalCalls = 0
  /\ htReturns = <<>>
  /\ clock_buttons = -1
  /\ first_clock = "none"
  /\ time_worked = "none"
  /\ date = "none"
  /\ dateWarnings = 0
  /\ runOutcome = "none"
  /\ loginDone = <<>>
  /\ gotos = 0
  /\ htTrace = <<>>
  /\ calls = 0
  /\ outDisabled = FALSE
  /\ tableRows = <<>>

\* ---------------------------------------------------------------- main
\* cli.main: build the automation object from the -q / -n flags (mutually
\* exclusive) and NTFY_TOPIC, register it for the handler; the selected run_*
\* operation then starts with _prepare_browser, which calls
\* A constructor that insists on the portal URL only.
MissingCredentialsUrlOnly(u, n, p) ==
  ~u

\* __init__: if not self.url or not self.username or not self.password
MissingCredentials(u, n, p) ==
  ~u \/ ~n \/ ~p

\* main constructs TimeCheckAutomation and registers it; __init__ ends the
\* process with sys.exit(1) when a credential is missing.  The run_* method
\* then calls setup_driver(max_retries, retry_delay).
MainNew ==
  /\ pc = "m_new" /\ ~inHandler
  /\ \E argQuiet \in BOOLEAN, argNtfy \in BOOLEAN :
       /\ ~(argQuiet /\ argNtfy)
       /\ quiet' = MainQuiet(argQuiet, argNtfy, envTopic)
  /\ ntfy_topic' = InitTopic(quiet', envTopic)
  /\ notifications_enabled' = InitEnabled(quiet', ntfy_topic')
  /\ IF MissingCredentials(url, username, password)
     THEN /\ exc' = "SystemExit(1)"
          /\ pc' = "m_finally"
          /\ UNCHANGED <<instance, max_retries, retry_delay>>
     ELSE /\ instance' = TRUE
          /\ max_retries' \in 1..MaxRetriesArg
          /\ retry_delay' \in RetryDelays
          /\ pc' = "sd_start"
          /\ UNCHANGED exc
  /\ UNCHANGED <<calls, htTrace, gotos, loginDone, runOutcome, tableRows, failures, stayTimedOut, modalCalls, htReturns, clock_buttons, first_clock, time_worked, date, dateWarnings, outDisabled,
                 envTopic, url, username, password, action, browser, page, playwright, default_timeout, cctx,
                 resume, inHandler, signals, sdVars, lstep, giVars, htVars,
                 clockedIn, histVars>>


\* -------------------------------------------------------- setup_driver
\* A backoff that doubles once too often.
SleepTimeOffByOne(delay, count) ==
  delay * 2^count

\* retry_delay * (2**(retry_count - 1))
SleepTime(delay, count) ==
  delay * 2^(count - 1)

\* A loop condition that admits no attempt.
MayAttemptNever(count, maxr) ==
  FALSE

\* while retry_count < max_retries
MayAttempt(count, maxr) ==
  count < maxr

\* A setup that retries after every kind of error.
SdHandlerRetriesAll(e) ==
  "sd_exc_pw"

\* What setup_driver does with an error raised inside its try block.
SdHandler(e) ==
  IF e \in PlaywrightErrors THEN "sd_exc_pw" ELSE "sd_exc_other"

\* The statements of setup_driver.
SdLabels == {"sd_start", "sd_launch", "sd_newpage", "sd_timeout", "sd_exc_pw",
             "sd_td_close", "sd_td_nullb", "sd_td_stop", "sd_td_nullp",
             "sd_backoff", "sd_exc_other"}

\* A handler that keeps the error of the first failed attempt.
LastExceptionFirst(prev, e) ==
  IF e \in PlaywrightErrors /\ prev = "none" THEN e ELSE prev

\* except PlaywrightError as e: last_exception = e
LastException(prev, e) ==
  IF e \in PlaywrightErrors THEN e ELSE prev

\* The Playwright errors of the failed attempts of this setup_driver call, in
\* order.
Failed(f, e) ==
  IF e \in PlaywrightErrors THEN Append(f, e) ELSE f

\* sync_playwright().start()
SdStart ==
  /\ pc = "sd_start" /\ ~inHandler
  /\ MayAttempt(retry_count, max_retries)
  /\ attempts' = attempts + 1
  /\ lastEvent' = "body"
  /\ released' = FALSE
  /\ \E o \in {"ok"} \cup PlaywrightErrors \cup {"Exception"} :
       IF o = "ok"
       THEN /\ playwright' = TRUE
            /\ stopCalls' = 0
            /\ pc' = "sd_launch"
            /\ UNCHANGED <<last_exception, failures>>
       ELSE /\ pc' = SdHandler(o)
            /\ last_exception' = LastException(last_exception, o)
            /\ failures' = Failed(failures, o)
            /\ UNCHANGED <<playwright, stopCalls>>
  /\ UNCHANGED <<calls, htTrace, gotos, loginDone, runOutcome, tableRows, stayTimedOut, modalCalls, htReturns, clock_buttons, first_clock, time_worked, date, dateWarnings, outDisabled,
                 inputVars, quiet, ntfy_topic, notifications_enabled, browser, page,
                 default_timeout, instance, exc, cctx, resume, inHandler, signals,
                 retry_count, lstep, giVars, htVars, clockedIn,
                 closeCalls, sleeps, notifLog, shots, clicks,
                 sessionInitialized, cleanupRaised, closeRaised,
                 loginFailed, exit_code, stdout>>

\* self.playwright.chromium.launch(...)
SdLaunch ==
  /\ pc = "sd_launch" /\ ~inHandler
  /\ lastEvent' = "body"
  /\ \E o \in {"ok"} \cup PlaywrightErrors \cup {"Exception"} :
       IF o = "ok"
       THEN /\ browser' = TRUE
            /\ closeCalls' = 0
            /\ pc' = "sd_newpage"
            /\ UNCHANGED <<last_exception, failures>>
       ELSE /\ pc' = SdHandler(o)
            /\ last_exception' = LastException(last_exception, o)
            /\ failures' = Failed(failures, o)
            /\ UNCHANGED <<browser, closeCalls>>
  /\ UNCHANGED <<calls, htTrace, gotos, loginDone, runOutcome, tableRows, stayTimedOut, modalCalls, htReturns, clock_buttons, first_clock, time_worked, date, dateWarnings, outDisabled,
                 inputVars, quiet, ntfy_topic, notifications_enabled, page, playwright,
                 default_timeout, instance, exc, cctx, resume, inHandler, signals,
                 retry_count, lstep, giVars, htVars, clockedIn,
                 stopCalls, sleeps, attempts, notifLog, shots, clicks, released,
                 sessionInitialized, cleanupRaised, closeRaised,
                 loginFailed, exit_code, stdout>>

\* self.browser.new_page()
SdNewPage ==
  /\ pc = "sd_newpage" /\ ~inHandler
  /\ lastEvent' = "body"
  /\ \E o \in {"ok"} \cup PlaywrightErrors \cup {"Exception"} :
       IF o = "ok"
       THEN /\ page' = TRUE
            /\ pc' = "sd_timeout"
            /\ UNCHANGED <<last_exception, failures>>
       ELSE /\ pc' = SdHandler(o)
            /\ last_exception' = LastException(last_exception, o)
            /\ failures' = Failed(failures, o)
            /\ UNCHANGED page
  /\ UNCHANGED <<calls, htTrace, gotos, loginDone, runOutcome, tableRows, stayTimedOut, modalCalls, htReturns, clock_buttons, first_clock, time_worked, date, dateWarnings, outDisabled,
                 inputVars, quiet, ntfy_topic, notifications_enabled, browser, playwright,
                 default_timeout, instance, exc, cctx, resume, inHandler, signals,
                 retry_count, lstep, giVars, htVars, clockedIn,
                 closeCalls, stopCalls, sleeps, attempts, notifLog, shots, clicks,
                 released, sessionInitialized, cleanupRaised,
                 closeRaised, loginFailed, exit_code, stdout>>

\* self.page.set_default_timeout(30000); return
SdSetTimeout ==
  /\ pc = "sd_timeout" /\ ~inHandler
  /\ lastEvent' = "body"
  /\ \E o \in {"ok"} \cup PlaywrightErrors \cup {"Exception"} :
       IF o = "ok"
       THEN /\ default_timeout' = 30000
            /\ sessionInitialized' = TRUE
            /\ pc' = "login"
            /\ lstep' = 1
            /\ retry_count' = 0
            /\ last_exception' = "none"
            /\ failures' = <<>>
            /\ sleeps' = <<>>
            /\ attempts' = 0
            /\ max_retries' = 0
            /\ retry_delay' = 0
       ELSE /\ pc' = SdHandler(o)
            /\ last_exception' = LastException(last_exception, o)
            /\ failures' = Failed(failures, o)
            /\ UNCHANGED <<default_timeout, sessionInitialized, lstep, retry_count,
                           sleeps, attempts, max_retries, retry_delay>>
  /\ UNCHANGED <<calls, htTrace, gotos, loginDone, runOutcome, tableRows, stayTimedOut, modalCalls, htReturns, clock_buttons, first_clock, time_worked, date, dateWarnings, outDisabled,
                 envTopic, url, username, password, action, quiet, ntfy_topic, notifications_enabled, browser, page,
                 playwright, instance, exc, cctx, resume, inHandler, signals,
                 giVars, htVars, clockedIn,
                 closeCalls, stopCalls, notifLog, shots, clicks,
                 released, cleanupRaised, closeRaised,
                 loginFailed, exit_code, stdout>>

\* except PlaywrightError: last_exception = e; retry_count += 1
SdExcPw ==
  /\ pc = "sd_exc_pw" /\ ~inHandler
  /\ retry_count' = retry_count + 1
  /\ pc' = "sd_td_close"
  /\ UNCHANGED <<calls, htTrace, gotos, loginDone, runOutcome, tableRows, failures, stayTimedOut, modalCalls, htReturns, clock_buttons, first_clock, time_worked, date, dateWarnings, outDisabled,
                 inputVars, objVars, exc, cctx, resume, inHandler, signals,
                 last_exception, lstep, giVars, htVars, clockedIn, histVars>>

\* if self.browser: try: self.browser.close() except: pass
SdTdClose ==
  /\ pc = "sd_td_close" /\ ~inHandler
  /\ IF browser
     THEN /\ closeCalls' = closeCalls + 1
          /\ pc' = "sd_td_nullb"
     ELSE /\ pc' = "sd_td_stop"
          /\ UNCHANGED closeCalls
  /\ UNCHANGED <<calls, htTrace, gotos, loginDone, runOutcome, tableRows, failures, stayTimedOut, modalCalls, htReturns, clock_buttons, first_clock, time_worked, date, dateWarnings, outDisabled,
                 inputVars, objVars, exc, cctx, resume, inHandler, signals, sdVars,
                 lstep, giVars, htVars, clockedIn,
                 stopCalls, sleeps, attempts, notifLog, shots, clicks, lastEvent,
                 released, sessionInitialized, cleanupRaised,
                 closeRaised, loginFailed, exit_code, stdout>>

\* self.browser = None
SdTdNullB ==
  /\ pc = "sd_td_nullb" /\ ~inHandler
  /\ browser' = FALSE
  /\ pc' = "sd_td_stop"
  /\ UNCHANGED <<calls, htTrace, gotos, loginDone, runOutcome, tableRows, failures, stayTimedOut, modalCalls, htReturns, clock_buttons, first_clock, time_worked, date, dateWarnings, outDisabled,
                 inputVars, quiet, ntfy_topic, notifications_enabled, page, playwright,
                 default_timeout, instance, exc, cctx, resume, inHandler, signals,
                 sdVars, lstep, giVars, htVars, clockedIn, histVars>>

\* if self.playwright: try: self.playwright.stop() except: pass
SdTdStop ==
  /\ pc = "sd_td_stop" /\ ~inHandler
  /\ IF playwright
     THEN /\ stopCalls' = stopCalls + 1
          /\ pc' = "sd_td_nullp"
     ELSE /\ pc' = "sd_backoff"
          /\ UNCHANGED stopCalls
  /\ UNCHANGED <<calls, htTrace, gotos, loginDone, runOutcome, tableRows, failures, stayTimedOut, modalCalls, htReturns, clock_buttons, first_clock, time_worked, date, dateWarnings, outDisabled,
                 inputVars, objVars, exc, cctx, resume, inHandler, signals, sdVars,
                 lstep, giVars, htVars, clockedIn,
                 closeCalls, sleeps, attempts, notifLog, shots, clicks, lastEvent,
                 released, sessionInitialized, cleanupRaised,
                 closeRaised, loginFailed, exit_code, stdout>>

\* self.playwright = None
SdTdNullP ==
  /\ pc = "sd_td_nullp" /\ ~inHandler
  /\ playwright' = FALSE
  /\ pc' = "sd_backoff"
  /\ UNCHANGED <<calls, htTrace, gotos, loginDone, runOutcome, tableRows, failures, stayTimedOut, modalCalls, htReturns, clock_buttons, first_clock, time_worked, date, dateWarnings, outDisabled,
                 inputVars, quiet, ntfy_topic, notifications_enabled, browser, page,
                 default_timeout, instance, exc, cctx, resume, inHandler, signals,
                 sdVars, lstep, giVars, htVars, clockedIn, histVars>>

\* if retry_count < max_retries: time.sleep(sleep_time)
\* else: send_notification(..., force=True); raise last_exception
SdBackoff ==
  /\ pc = "sd_backoff" /\ ~inHandler
  /\ IF MayAttempt(retry_count, max_retries)
     THEN /\ sleeps' = Append(sleeps, SleepTime(retry_delay, retry_count))
          /\ pc' = "sd_start"
          /\ UNCHANGED <<notifLog, exc>>
     ELSE /\ notifLog' = Notified(TRUE, "high", "setup")
          /\ exc' = last_exception
          /\ pc' = "run_except"
          /\ UNCHANGED sleeps
  /\ UNCHANGED <<calls, htTrace, gotos, loginDone, runOutcome, tableRows, failures, stayTimedOut, modalCalls, htReturns, clock_buttons, first_clock, time_worked, date, dateWarnings, outDisabled,
                 inputVars, objVars, cctx, resume, inHandler, signals, sdVars,
                 lstep, giVars, htVars, clockedIn,
                 closeCalls, stopCalls, attempts, shots, clicks, lastEvent,
                 released, sessionInitialized, cleanupRaised,
                 closeRaised, loginFailed, exit_code, stdout>>

\* except Exception: send_notification(..., force=True); raise
SdExcOther ==
  /\ pc = "sd_exc_other" /\ ~inHandler
  /\ notifLog' = Notified(TRUE, "high", "setup")
  /\ exc' = "Exception"
  /\ pc' = "run_except"
  /\ UNCHANGED <<calls, htTrace, gotos, loginDone, runOutcome, tableRows, failures, stayTimedOut, modalCalls, htReturns, clock_buttons, first_clock, time_worked, date, dateWarnings, outDisabled,
                 inputVars, objVars, cctx, resume, inHandler, signals, sdVars,
                 lstep, giVars, htVars, clockedIn,
                 closeCalls, stopCalls, sleeps, attempts, shots, clicks, lastEvent,
                 released, sessionInitialized, cleanupRaised,
                 closeRaised, loginFailed, exit_code, stdout>>


\* ------------------------------------------------------------- cleanup
\* A cleanup whose except clause only names RuntimeError.
CleanupCatchesRuntimeOnly(e) ==
  e = "RuntimeError"

\* cleanup(): "except Exception" around browser.close() / playwright.stop().
CleanupCatches(e) ==
  e \notin {"SystemExit", "KeyboardInterrupt"}

\* cleanup(): "if self.browser:" decides whether anything is attempted.
CleanupAttempts(b) ==
  b

\* Where control goes when a cleanup() call returns to its caller.
CleanupReturnTo(ctx, e) ==
  CASE ctx = "run" -> IF e = "none" THEN "m_after_run" ELSE "m_except"
    [] ctx = "main" -> "m_dereg"
    [] ctx = "call" -> "idle"
    [] OTHER -> "h_exit"

\* Where an exception escaping cleanup() lands in its caller.
CleanupRaiseTo(ctx) ==
  CASE ctx = "run" -> "m_except"
    [] ctx = "main" -> "m_exit"
    [] ctx = "call" -> "run_except"
    [] OTHER -> resume.pc

\* if self.browser:
ClCheck ==
  /\ pc = "cl_check"
  /\ pc' = IF CleanupAttempts(browser) THEN "cl_close" ELSE "cl_ret"
  /\ UNCHANGED <<calls, htTrace, gotos, loginDone, runOutcome, tableRows, failures, stayTimedOut, modalCalls, htReturns, clock_buttons, first_clock, time_worked, date, dateWarnings, outDisabled,
                 inputVars, objVars, exc, cctx, resume, inHandler, signals, sdVars,
                 lstep, giVars, htVars, clockedIn, histVars>>

\* self.browser.close()
ClClose ==
  /\ pc = "cl_close"
  /\ closeCalls' = closeCalls + 1
  /\ \E o \in CallOutcomes :
       IF o = "ok"
       THEN /\ pc' = "cl_nullb"
            /\ UNCHANGED <<closeRaised, cleanupRaised, exc, inHandler>>
       ELSE /\ closeRaised' = TRUE
            /\ IF CleanupCatches("PlaywrightError")
               THEN /\ pc' = "cl_ret"
                    /\ UNCHANGED <<cleanupRaised, exc, inHandler>>
               ELSE /\ cleanupRaised' = TRUE
                    /\ exc' = "PlaywrightError"
                    /\ pc' = CleanupRaiseTo(cctx)
                    /\ inHandler' = FALSE
  /\ UNCHANGED <<calls, htTrace, gotos, loginDone, runOutcome, tableRows, failures, stayTimedOut, modalCalls, htReturns, clock_buttons, first_clock, time_worked, date, dateWarnings, outDisabled,
                 inputVars, objVars, cctx, resume, signals, sdVars,
                 lstep, giVars, htVars, clockedIn,
                 stopCalls, sleeps, attempts, notifLog, shots, clicks, lastEvent,
                 released, sessionInitialized, loginFailed,
                 exit_code, stdout>>

\* self.browser = None
ClNullB ==
  /\ pc = "cl_nullb"
  /\ browser' = FALSE
  /\ pc' = "cl_checkpw"
  /\ UNCHANGED <<calls, htTrace, gotos, loginDone, runOutcome, tableRows, failures, stayTimedOut, modalCalls, htReturns, clock_buttons, first_clock, time_worked, date, dateWarnings, outDisabled,
                 inputVars, quiet, ntfy_topic, notifications_enabled, page, playwright,
                 default_timeout, instance, exc, cctx, resume, inHandler, signals,
                 sdVars, lstep, giVars, htVars, clockedIn, histVars>>

\* if self.playwright:
ClCheckPw ==
  /\ pc = "cl_checkpw"
  /\ pc' = IF playwright THEN "cl_stop" ELSE "cl_ret"
  /\ UNCHANGED <<calls, htTrace, gotos, loginDone, runOutcome, tableRows, failures, stayTimedOut, modalCalls, htReturns, clock_buttons, first_clock, time_worked, date, dateWarnings, outDisabled,
                 inputVars, objVars, exc, cctx, resume, inHandler, signals, sdVars,
                 lstep, giVars, htVars, clockedIn, histVars>>

\* self.playwright.stop()
ClStop ==
  /\ pc = "cl_stop"
  /\ stopCalls' = stopCalls + 1
  /\ \E o \in CallOutcomes :
       IF o = "ok"
       THEN /\ pc' = "cl_nullp"
            /\ UNCHANGED <<cleanupRaised, exc, inHandler>>
       ELSE IF CleanupCatches("PlaywrightError")
            THEN /\ pc' = "cl_ret"
                 /\ UNCHANGED <<cleanupRaised, exc, inHandler>>
            ELSE /\ cleanupRaised' = TRUE
                 /\ exc' = "PlaywrightError"
                 /\ pc' = CleanupRaiseTo(cctx)
                 /\ inHandler' = FALSE
  /\ UNCHANGED <<calls, htTrace, gotos, loginDone, runOutcome, tableRows, failures, stayTimedOut, modalCalls, htReturns, clock_buttons, first_clock, time_worked, date, dateWarnings, outDisabled,
                 inputVars, objVars, cctx, resume, signals, sdVars,
                 lstep, giVars, htVars, clockedIn,
                 closeCalls, sleeps, attempts, notifLog, shots, clicks, lastEvent,
                 released, sessionInitialized, closeRaised,
                 loginFailed, exit_code, stdout>>

\* self.playwright = None
ClNullP ==
  /\ pc = "cl_nullp"
  /\ playwright' = FALSE
  /\ pc' = "cl_ret"
  /\ UNCHANGED <<calls, htTrace, gotos, loginDone, runOutcome, tableRows, failures, stayTimedOut, modalCalls, htReturns, clock_buttons, first_clock, time_worked, date, dateWarnings, outDisabled,
                 inputVars, quiet, ntfy_topic, notifications_enabled, browser, page,
                 default_timeout, instance, exc, cctx, resume, inHandler, signals,
                 sdVars, lstep, giVars, htVars, clockedIn, histVars>>

\* cleanup() returns to its caller.
ClReturn ==
  /\ pc = "cl_ret"
  /\ released' = TRUE
  /\ pc' = CleanupReturnTo(cctx, exc)
  /\ UNCHANGED <<calls, htTrace, gotos, loginDone, runOutcome, tableRows, failures, stayTimedOut, modalCalls, htReturns, clock_buttons, first_clock, time_worked, date, dateWarnings, outDisabled,
                 inputVars, objVars, exc, cctx, resume, inHandler, signals, sdVars,
                 lstep, giVars, htVars, clockedIn,
                 closeCalls, stopCalls, sleeps, attempts, notifLog, shots, clicks,
                 lastEvent, sessionInitialized, cleanupRaised, closeRaised,
                 loginFailed, exit_code, stdout>>


\* ------------------------------------------------------ signal handler
CleanupLabels == {"cl_check", "cl_close", "cl_nullb", "cl_checkpw", "cl_stop",
                  "cl_nullp", "cl_ret"}
MainTryLabels == {"m_new", "m_after_run", "m_except"}
MainFinallyLabels == {"m_finally", "m_dereg", "m_exit"}

\* Where the SystemExit raised by sys.exit(0) in the handler lands when it is
\* raised at statement p: the bare "except:" of setup_driver's teardown
\* swallows it, the finally blocks of run_* and main run on the way out.
UnwindTarget(p, ctx) ==
  CASE p = "sd_td_close" -> [pc |-> "sd_td_nullb", exc |-> "none"]
    [] p = "sd_td_stop" -> [pc |-> "sd_td_nullp", exc |-> "none"]
    [] p \in MainTryLabels -> [pc |-> "m_finally", exc |-> "SystemExit"]
    [] p \in MainFinallyLabels -> [pc |-> "m_exit", exc |-> "SystemExit"]
    [] p \in CleanupLabels /\ ctx = "main" -> [pc |-> "m_exit", exc |-> "SystemExit"]
    [] p \in CleanupLabels /\ ctx = "run" -> [pc |-> "m_except", exc |-> "SystemExit"]
    [] p = "run_finally" -> [pc |-> "m_except", exc |-> "SystemExit"]
    [] OTHER -> [pc |-> "run_finally", exc |-> "SystemExit"]

\* time_info, a local of the method that asked for it, ends with its use.
SnapshotDropped ==
  /\ tableRows' = <<>>
  /\ first_clock' = "none"
  /\ time_worked' = "none"
  /\ time_left' = "none"
  /\ date' = "none"
  /\ dateWarnings' = 0

\* The interrupted frames are left for good unless the SystemExit is caught
\* inside setup_driver: from the delivery on, nothing reads the page, the
\* arguments and locals of setup_driver, the position in login or the
\* snapshot again.
Abandoned(p, ctx) ==
  UnwindTarget(p, ctx).pc \notin SdLabels

FramesDropped ==
  /\ max_retries' = 0 /\ retry_delay' = 0
  /\ retry_count' = 0 /\ last_exception' = "none"
  /\ failures' = <<>> /\ sleeps' = <<>> /\ attempts' = 0
  /\ lstep' = 0 /\ loginDone' = <<>> /\ stayTimedOut' = FALSE
  /\ giret' = "none" /\ clock_buttons' = -1
  /\ SnapshotDropped
  /\ clockedIn' = FALSE /\ outDisabled' = FALSE

\* SIGINT or SIGTERM is delivered between two statements of the main thread
\* (or of a handler that is already running, whose frame is then abandoned).
Signal ==
  /\ pc # "done"
  /\ signals < MaxSignals
  /\ signals' = signals + 1
  /\ resume' = IF inHandler THEN resume ELSE UnwindTarget(pc, cctx)
  /\ inHandler' = TRUE
  /\ pc' = "h_inst"
  /\ IF ~inHandler /\ Abandoned(pc, cctx)
     THEN FramesDropped
     ELSE UNCHANGED <<max_retries, retry_delay, sdVars, failures, sleeps, attempts,
                      lstep, loginDone, stayTimedOut, giret, clock_buttons,
                      tableRows, first_clock, time_worked, time_left, date, dateWarnings,
                      clockedIn, outDisabled>>
  /\ UNCHANGED <<calls, htTrace, gotos, htVars, htReturns, modalCalls, runOutcome, envTopic, url, username, password, action, objVars, exc, cctx,
                 gi_status, closeCalls, stopCalls, notifLog, shots, clicks,
                 lastEvent, released, sessionInitialized, cleanupRaised, closeRaised,
                 loginFailed, exit_code, stdout>>


\* signal_handler: if current_automation_instance: cleanup()
HInst ==
  /\ pc = "h_inst"
  /\ IF instance
     THEN /\ cctx' = "handler"
          /\ pc' = "cl_check"
          /\ lastEvent' = "cleanup"
     ELSE /\ pc' = "h_exit"
          /\ UNCHANGED <<cctx, lastEvent>>
  /\ UNCHANGED <<calls, htTrace, gotos, loginDone, runOutcome, tableRows, failures, stayTimedOut, modalCalls, htReturns, clock_buttons, first_clock, time_worked, date, dateWarnings, outDisabled,
                 inputVars, objVars, exc, resume, inHandler, signals, sdVars,
                 lstep, giVars, htVars, clockedIn,
                 closeCalls, stopCalls, sleeps, attempts, notifLog, shots, clicks,
                 released, sessionInitialized, cleanupRaised,
                 closeRaised, loginFailed, exit_code, stdout>>

\* signal_handler: sys.exit(0)
HExit ==
  /\ pc = "h_exit"
  /\ pc' = resume.pc
  /\ exc' = resume.exc
  /\ inHandler' = FALSE
  /\ UNCHANGED <<calls, htTrace, gotos, loginDone, runOutcome, tableRows, failures, stayTimedOut, modalCalls, htReturns, clock_buttons, first_clock, time_worked, date, dateWarnings, outDisabled,
                 inputVars, objVars, cctx, resume, signals, sdVars, lstep, giVars,
                 htVars, clockedIn, histVars>>

\* -------------------------------------------- run_*: except and finally
\* A run_* whose cleanup sits at the end of the try body and of the handler
\* for unexpected errors instead of in a finally clause.
AfterBodyErrorNoFinally(e) ==
  IF e \in ExpectedErrors THEN "m_except" ELSE "run_finally"

\* The except clauses of run_status_check / run_clock_action / run_auto_out
\* re-raise; the finally clause follows.
AfterBodyError(e) ==
  "run_finally"

RunExcept ==
  /\ pc = "run_except" /\ ~inHandler
  /\ notifLog' = IF exc \in ExpectedErrors THEN notifLog
                 ELSE Notified(TRUE, "high", "run_unexpected")
  /\ pc' = AfterBodyError(exc)
  /\ retry_count' = 0
  /\ last_exception' = "none"
  /\ failures' = <<>>
  /\ sleeps' = <<>>
  /\ attempts' = 0
  /\ max_retries' = 0
  /\ retry_delay' = 0
  /\ UNCHANGED <<calls, htTrace, gotos, loginDone, runOutcome, tableRows, stayTimedOut, modalCalls, htReturns, clock_buttons, first_clock, time_worked, date, dateWarnings, outDisabled,
                 envTopic, url, username, password, action, objVars, exc, cctx, resume, inHandler, signals,
                 lstep, giVars, htVars, clockedIn,
                 closeCalls, stopCalls, shots, clicks, lastEvent,
                 released, sessionInitialized, cleanupRaised,
                 closeRaised, loginFailed, exit_code, stdout>>

\* finally: self.cleanup()
RunFinally ==
  /\ pc = "run_finally" /\ ~inHandler
  /\ cctx' = "run"
  /\ pc' = "cl_check"
  /\ lastEvent' = "cleanup"
  /\ UNCHANGED <<calls, htTrace, gotos, loginDone, runOutcome, tableRows, failures, stayTimedOut, modalCalls, htReturns, clock_buttons, first_clock, time_worked, date, dateWarnings, outDisabled,
                 inputVars, objVars, exc, resume, inHandler, signals, sdVars,
                 lstep, giVars, htVars, clockedIn,
                 closeCalls, stopCalls, sleeps, attempts, notifLog, shots, clicks,
                 released, sessionInitialized, cleanupRaised,
                 closeRaised, loginFailed, exit_code, stdout>>

\* ------------------------------------------------- main: after the run
\* The run_* method returned: status prints the JSON object.
MainAfterRun ==
  /\ pc = "m_after_run" /\ ~inHandler
  /\ stdout' = IF action = "status" THEN stdout + 1 ELSE stdout
  /\ runOutcome' = "returned"
  /\ pc' = "m_finally"
  /\ UNCHANGED <<calls, htTrace, gotos, loginDone, tableRows, failures, stayTimedOut, modalCalls, htReturns, clock_buttons, first_clock, time_worked, date, dateWarnings, outDisabled,
                 inputVars, objVars, exc, cctx, resume, inHandler, signals, sdVars,
                 lstep, giVars, htVars, clockedIn,
                 closeCalls, stopCalls, sleeps, attempts, notifLog, shots, clicks,
                 lastEvent, released, sessionInitialized, cleanupRaised, closeRaised, loginFailed, exit_code>>

\* main's except clauses.  The handler for unexpected errors calls
\* automation.send_notification, which TimeCheckAutomation does not define.
MainExcept ==
  /\ pc = "m_except" /\ ~inHandler
  /\ exit_code' = IF exc \in ExpectedErrors THEN 1 ELSE exit_code
  /\ exc' = CASE exc \in ExpectedErrors -> "none"
              [] exc = "SystemExit" -> "SystemExit"
              [] OTHER -> "AttributeError"
  /\ runOutcome' = "raised"
  /\ pc' = "m_finally"
  /\ UNCHANGED <<calls, htTrace, gotos, loginDone, tableRows, failures, stayTimedOut, modalCalls, htReturns, clock_buttons, first_clock, time_worked, date, dateWarnings, outDisabled,
                 inputVars, objVars, cctx, resume, inHandler, signals, sdVars,
                 lstep, giVars, htVars, clockedIn,
                 closeCalls, stopCalls, sleeps, attempts, notifLog, shots, clicks,
                 lastEvent, released, sessionInitialized, cleanupRaised, closeRaised, loginFailed, stdout>>

\* finally: if current_automation_instance and current_automation_instance.page
FinalCheck(inst, pg) ==
  inst /\ pg

MainFinally ==
  /\ pc = "m_finally" /\ ~inHandler
  /\ IF FinalCheck(instance, page)
     THEN /\ cctx' = "main"
          /\ pc' = "cl_check"
          /\ lastEvent' = "cleanup"
     ELSE /\ pc' = "m_dereg"
          /\ UNCHANGED <<cctx, lastEvent>>
  /\ UNCHANGED <<calls, htTrace, gotos, loginDone, runOutcome, tableRows, failures, stayTimedOut, modalCalls, htReturns, clock_buttons, first_clock, time_worked, date, dateWarnings, outDisabled,
                 inputVars, objVars, exc, resume, inHandler, signals, sdVars,
                 lstep, giVars, htVars, clockedIn,
                 closeCalls, stopCalls, sleeps, attempts, notifLog, shots, clicks,
                 released, sessionInitialized, cleanupRaised,
                 closeRaised, loginFailed, exit_code, stdout>>

\* current_automation_instance = None
MainDereg ==
  /\ pc = "m_dereg" /\ ~inHandler
  /\ instance' = FALSE
  /\ pc' = "m_exit"
  /\ UNCHANGED <<calls, htTrace, gotos, loginDone, runOutcome, tableRows, failures, stayTimedOut, modalCalls, htReturns, clock_buttons, first_clock, time_worked, date, dateWarnings, outDisabled,
                 inputVars, quiet, ntfy_topic, notifications_enabled, browser, page,
                 playwright, default_timeout, exc, cctx, resume, inHandler, signals,
                 sdVars, lstep, giVars, htVars, clockedIn, histVars>>

\* An exit that reports exit_code whatever exception is pending.
ExitCodeIgnoresPending(e, code) ==
  code

\* sys.exit(exit_code), or the pending exception ends the process.
ExitCode(e, code) ==
  CASE e = "none" -> code
    [] e = "SystemExit" -> 0
    [] e = "SystemExit(1)" -> 1
    [] OTHER -> 1

MainExit ==
  /\ pc = "m_exit" /\ ~inHandler
  /\ exit_code' = ExitCode(exc, exit_code)
  /\ pc' = "done"
  /\ UNCHANGED <<calls, htTrace, gotos, loginDone, runOutcome, tableRows, failures, stayTimedOut, modalCalls, htReturns, clock_buttons, first_clock, time_worked, date, dateWarnings, outDisabled,
                 inputVars, objVars, exc, cctx, resume, inHandler, signals, sdVars,
                 lstep, giVars, htVars, clockedIn,
                 closeCalls, stopCalls, sleeps, attempts, notifLog, shots, clicks,
                 lastEvent, released, sessionInitialized, cleanupRaised, closeRaised, loginFailed, stdout>>


\* --------------------------------------------------------------- login
LoginSteps == <<"goto", "wait_loginfmt", "fill_loginfmt", "wait_next", "click_next",
                "wait_password", "fill_password", "wait_submit", "click_submit",
                "wait_stay", "click_stay", "wait_app_root", "wait_app_clock">>
PageOutcomes == {"ok"} \cup PlaywrightErrors \cup {"Exception"}

\* The outcomes of a call on self.page: a page whose browser has been closed
\* answers every call with a Playwright error.
PageCall == IF browser THEN PageOutcomes ELSE {"PlaywrightError"}

\* A login without the inner try around step 5.
OptionalStepNone(n) ==
  FALSE

\* The inner try of step 5 ('Stay signed in?') catches PlaywrightTimeoutError.
OptionalStep(n) ==
  LoginSteps[n] \in {"wait_stay", "click_stay"}

\* A login that goes on to the next step when a wait or a click times out.
LoginNextLenient(n, o) ==
  CASE o = "ok" -> n + 1
    [] o = "PlaywrightTimeoutError" -> n + 1
    [] OTHER -> 0

\* The step that follows step n when it ends with outcome o; 0 when the
\* error leaves the try block of login.
LoginNext(n, o) ==
  CASE o = "ok" -> n + 1
    [] o = "PlaywrightTimeoutError" /\ OptionalStep(n) -> 12
    [] OTHER -> 0

\* The wait for the 'Stay signed in?' control ran into its 10 s bound.
StayTimeout(n, o) ==
  LoginSteps[n] = "wait_stay" /\ o = "PlaywrightTimeoutError"

\* One page call of login (or the guard on self.page before the try).
LoginStep ==
  /\ pc = "login" /\ ~inHandler
  /\ IF ~page
     THEN /\ exc' = "RuntimeError"
          /\ pc' = "run_except"
          /\ loginFailed' = TRUE
          /\ UNCHANGED <<lstep, lastEvent, stayTimedOut, loginDone, gotos>>
     ELSE /\ lastEvent' = "body"
          /\ gotos' = IF LoginSteps[lstep] = "goto" THEN gotos + 1 ELSE gotos
          /\ UNCHANGED loginFailed
          /\ \E o \in PageCall :
               LET n == LoginNext(lstep, o)
               IN  /\ stayTimedOut' = (stayTimedOut \/ StayTimeout(lstep, o))
                   /\ IF n = 0
                      THEN /\ exc' = o
                           /\ pc' = "lg_exc"
                           /\ UNCHANGED lstep
                      ELSE IF n > Len(LoginSteps)
                           THEN /\ pc' = "rbm"
                                /\ lstep' = 0
                                /\ UNCHANGED exc
                           ELSE /\ lstep' = n
                                /\ UNCHANGED <<pc, exc>>
                   /\ loginDone' = IF o = "ok" THEN Append(loginDone, LoginSteps[lstep])
                                   ELSE loginDone
  /\ UNCHANGED <<calls, htTrace, runOutcome, tableRows, failures, modalCalls, htReturns, clock_buttons, first_clock, time_worked, date, dateWarnings, outDisabled,
                 inputVars, objVars, cctx, resume, inHandler, signals, sdVars,
                 giVars, htVars, clockedIn,
                 closeCalls, stopCalls, sleeps, attempts, notifLog, shots, clicks,
                 released, sessionInitialized, cleanupRaised,
                 closeRaised, exit_code, stdout>>

\* A login that reports its error and returns.
LoginExceptSwallows ==
  /\ pc = "lg_exc" /\ ~inHandler
  /\ shots' = Shot
  /\ lastEvent' = "body"
  /\ loginFailed' = TRUE
  /\ pc' = "rbm"
  /\ lstep' = 0
  /\ loginDone' = <<>>
  /\ stayTimedOut' = FALSE
  /\ \E c \in CallOutcomes :
       IF exc = "PlaywrightTimeoutError" /\ c = "raise"
       THEN /\ exc' = "PlaywrightError"
            /\ UNCHANGED notifLog
       ELSE /\ notifLog' = Notified(TRUE, "high", "login")
            /\ UNCHANGED exc
  /\ UNCHANGED <<calls, htTrace, gotos, runOutcome, tableRows, failures, modalCalls, htReturns, clock_buttons, first_clock, time_worked, date, dateWarnings, outDisabled,
                 inputVars, objVars, cctx, resume, inHandler, signals, sdVars,
                 giVars, htVars, clockedIn,
                 closeCalls, stopCalls, sleeps, attempts, clicks,
                 released, sessionInitialized, cleanupRaised,
                 closeRaised, exit_code, stdout>>

\* A login that starts over after an error.
LoginExceptRetries ==
  /\ pc = "lg_exc" /\ ~inHandler
  /\ shots' = Shot
  /\ lastEvent' = "body"
  /\ loginFailed' = TRUE
  /\ pc' = "login"
  /\ lstep' = 1
  /\ loginDone' = <<>>
  /\ stayTimedOut' = FALSE
  /\ \E c \in CallOutcomes :
       IF exc = "PlaywrightTimeoutError" /\ c = "raise"
       THEN /\ exc' = "PlaywrightError"
            /\ UNCHANGED notifLog
       ELSE /\ notifLog' = Notified(TRUE, "high", "login")
            /\ UNCHANGED exc
  /\ UNCHANGED <<calls, htTrace, gotos, runOutcome, tableRows, failures, modalCalls, htReturns, clock_buttons, first_clock, time_worked, date, dateWarnings, outDisabled,
                 inputVars, objVars, cctx, resume, inHandler, signals, sdVars,
                 giVars, htVars, clockedIn,
                 closeCalls, stopCalls, sleeps, attempts, clicks,
                 released, sessionInitialized, cleanupRaised,
                 closeRaised, exit_code, stdout>>

\* The except clauses of login: screenshot, (for a timeout) page.content()
\* for the debug log, forced notification, raise.
LoginExcept ==
  /\ pc = "lg_exc" /\ ~inHandler
  /\ shots' = Shot
  /\ lastEvent' = "body"
  /\ loginFailed' = TRUE
  /\ pc' = "run_except"
  /\ lstep' = 0
  /\ loginDone' = <<>>
  /\ stayTimedOut' = FALSE
  /\ \E c \in CallOutcomes :
       IF exc = "PlaywrightTimeoutError" /\ c = "raise"
       THEN /\ exc' = "PlaywrightError"
            /\ UNCHANGED notifLog
       ELSE /\ notifLog' = Notified(TRUE, "high", "login")
            /\ UNCHANGED exc
  /\ UNCHANGED <<calls, htTrace, gotos, runOutcome, tableRows, failures, modalCalls, htReturns, clock_buttons, first_clock, time_worked, date, dateWarnings, outDisabled,
                 inputVars, objVars, cctx, resume, inHandler, signals, sdVars,
                 giVars, htVars, clockedIn,
                 closeCalls, stopCalls, sleeps, attempts, clicks,
                 released, sessionInitialized, cleanupRaised,
                 closeRaised, exit_code, stdout>>

\* _prepare_browser: remove_blocking_modal() swallows every error; the body
\* of the selected operation follows.
BodyStart(a) ==
  IF a \in ClockActions THEN "ht_start" ELSE "gi_start"

RemoveBlockingModal ==
  /\ pc = "rbm" /\ ~inHandler
  /\ lastEvent' = "body"
  /\ modalCalls' = modalCalls + 1
  /\ action' \in Actions
  /\ clockedIn' \in BOOLEAN
  /\ pc' = BodyStart(action')
  /\ stayTimedOut' = FALSE
  /\ loginDone' = <<>>
  /\ giret' = IF action' \in ClockActions THEN giret ELSE "run"
  /\ ht_action' = IF action' \in ClockActions THEN action' ELSE ht_action
  /\ UNCHANGED <<calls, htTrace, gotos, runOutcome, tableRows, failures, htReturns, clock_buttons, first_clock, time_worked, date, dateWarnings, outDisabled,
                 envTopic, url, username, password, max_retries, retry_delay, objVars, exc, cctx, resume,
                 inHandler, signals, sdVars,
                 lstep, gi_status, time_left, ht_phase, is_clocked_in, target_action,
                 ht_result,
                 closeCalls, stopCalls, sleeps, attempts, notifLog, shots, clicks,
                 released, sessionInitialized, cleanupRaised,
                 closeRaised, loginFailed, exit_code, stdout>>


\* ------------------------------------------------------- get_time_info
TimeLefts == {"00:00:00", "01:30:00", "absent"}

\* status = "Clocked In" if is_clocked_in else "Clocked Out"
StatusOf(disabled) ==
  IF disabled THEN "Clocked In" ELSE "Clocked Out"

\* A reader that is content with one button.
ButtonStatusOneEnough(o, n, disabled) ==
  CASE o = "ok" /\ n >= 1 -> StatusOf(disabled)
    [] o = "ok" -> "Unknown"
    [] o = "PlaywrightTimeoutError" -> "Unknown (Timeout)"
    [] OTHER -> "Unknown (Error)"

\* The inner try around the clock buttons: the status that results from the
\* outcome o of the page calls and the number n of buttons found.
ButtonStatus(o, n, disabled) ==
  CASE o = "ok" /\ n >= 2 -> StatusOf(disabled)
    [] o = "ok" -> "Unknown"
    [] o = "PlaywrightTimeoutError" -> "Unknown (Timeout)"
    [] OTHER -> "Unknown (Error)"

\* Where get_time_info returns to, and where an error it raises lands.
GiReturnTo(r, a) ==
  CASE r = "ht" -> "ht_verify"
    [] a = "status" -> "rs_notify"
    [] OTHER -> "ra_decide"

\* A re-read whose error skips the handlers of the inner try.
GiRaiseToOuter(r) ==
  IF r = "ht" THEN "ht_outer_exc" ELSE "run_except"

GiRaiseTo(r) ==
  IF r = "ht" THEN "ht_inner_exc" ELSE "run_except"

\* ---- the status table
\* The labels of the rows that get_time_info looks up, and one it ignores.
Labels == {"First clock in", "All for today", "Time left", "Current Date", "Break"}

\* A table row as the page presents it: the number of its td cells, the
\* stripped texts of the first two, and whether reading it raises.
Row(l, v) ==
  [cells |-> 2, label |-> l, value |-> v, raises |-> FALSE]

ShortRow ==
  [cells |-> 1, label |-> "", value |-> "", raises |-> FALSE]

BrokenRow ==
  [cells |-> 2, label |-> "Time left", value |-> "04:45:00", raises |-> TRUE]

\* value.split('/') for the cell texts that occur.
SplitSlash(v) ==
  CASE v = "05/03/2024" -> <<"05", "03", "2024">>
    [] v = "05/03" -> <<"05", "03">>
    [] v = "1/2/3/4" -> <<"1", "2", "3", "4">>
    [] OTHER -> <<v>>

\* A reader that stores the date cell as the page shows it.
NormalizeDateKeep(v) ==
  v

\* day, month, year = value.split('/'); value = f"{year}-{month}-{day}";
\* the value is kept when the unpacking raises ValueError.
NormalizeDate(v) ==
  LET parts == SplitSlash(v)
  IN  IF v # "" /\ Len(parts) = 3
      THEN parts[3] \o "-" \o parts[2] \o "-" \o parts[1]
      ELSE v

\* The unpacking of value.split('/') raises ValueError, which is caught and
\* logged as a warning.
DateWarns(r) ==
  /\ r.label = "Current Date"
  /\ r.value # ""
  /\ Len(SplitSlash(r.value)) # 3

\* The value stored for a row: the date row is normalised.
RowValue(r) ==
  IF r.label = "Current Date" THEN NormalizeDate(r.value) ELSE r.value

\* times = {} filled by the loop over the rows: rows with fewer than two
\* cells and rows that raise are skipped; "absent" stands for a missing key.
RECURSIVE TimesOf(_)
TimesOf(rows) ==
  IF rows = <<>>
  THEN [l \in Labels |-> "absent"]
  ELSE LET n == Len(rows)
           r == rows[n]
           before == TimesOf(SubSeq(rows, 1, n - 1))
       IN  IF ~r.raises /\ r.cells >= 2
           THEN [before EXCEPT ![r.label] = RowValue(r)]
           ELSE before

\* The number of date warnings the loop over the rows logs.
RECURSIVE DateWarnings(_)
DateWarnings(rows) ==
  IF rows = <<>>
  THEN 0
  ELSE LET n == Len(rows)
           r == rows[n]
       IN  DateWarnings(SubSeq(rows, 1, n - 1))
             + (IF ~r.raises /\ r.cells >= 2 /\ DateWarns(r) THEN 1 ELSE 0)

\* The keys of the returned dict: "return {}" without rows, the five-key
\* result otherwise.
ResultKeys(rows) ==
  IF rows = <<>> THEN {}
  ELSE {"status", "first_clock", "time_worked", "time_left", "date"}

\* The table of a working day, as the portal shows it.
DayTable(tl) ==
  <<Row("First clock in", "08:05"), Row("All for today", "03:15:00")>>
  \o (IF tl = "absent" THEN <<>> ELSE <<Row("Time left", tl)>>)
  \o <<Row("Current Date", "05/03/2024")>>

PortalTables == {<<>>} \cup {DayTable(tl) : tl \in TimeLefts}

\* The steps of the inner try of handle_time_tracking are recorded in
\* htTrace; a get_time_info called from there is its re-read.
RereadStarted(r, trace) ==
  IF r = "ht" THEN Append(trace, "reread") ELSE trace

RereadReturned(r, trace) ==
  IF r = "ht" THEN Append(trace, "reread_ret") ELSE trace

\* Guard on self.page, modal removal, wait for the table, read its rows; Tb
\* is the set of tables the page may show.
GiTableOn(Tb) ==
  /\ pc = "gi_start" /\ ~inHandler
  /\ IF ~page
     THEN /\ exc' = "RuntimeError"
          /\ pc' = GiRaiseTo(giret)
          /\ UNCHANGED <<gi_status, time_left, first_clock, time_worked, date, dateWarnings,
                         tableRows, shots, lastEvent, modalCalls, htTrace>>
     ELSE /\ lastEvent' = "body"
          /\ modalCalls' = modalCalls + 1
          /\ \/ \E t \in Tb :
                  /\ browser
                  /\ tableRows' = t
                  /\ first_clock' = TimesOf(t)["First clock in"]
                  /\ time_worked' = TimesOf(t)["All for today"]
                  /\ time_left' = TimesOf(t)["Time left"]
                  /\ date' = TimesOf(t)["Current Date"]
                  /\ dateWarnings' = DateWarnings(t)
                  /\ IF t = <<>>
                     THEN /\ shots' = Shot
                          /\ htTrace' = RereadReturned(giret, RereadStarted(giret, htTrace))
                          /\ gi_status' = "absent"
                          /\ pc' = GiReturnTo(giret, action)
                     ELSE /\ pc' = "gi_buttons"
                          /\ htTrace' = RereadStarted(giret, htTrace)
                          /\ UNCHANGED <<gi_status, shots>>
                  /\ UNCHANGED exc
             \/ \E o \in PageCall \ {"ok"} :
                  /\ exc' = o
                  /\ pc' = "gi_exc"
                  /\ htTrace' = RereadStarted(giret, htTrace)
                  /\ UNCHANGED <<gi_status, time_left, first_clock, time_worked, date, dateWarnings,
                                 tableRows, shots>>
  /\ UNCHANGED <<calls, gotos, loginDone, runOutcome, failures, stayTimedOut, htReturns, clock_buttons, outDisabled,
                 inputVars, objVars, cctx, resume, inHandler, signals, sdVars,
                 lstep, giret, htVars, clockedIn,
                 closeCalls, stopCalls, sleeps, attempts, notifLog, clicks,
                 released, sessionInitialized, cleanupRaised,
                 closeRaised, loginFailed, exit_code, stdout>>

GiTable ==
  GiTableOn(PortalTables)

\* Wait for app-clock, query its buttons, read the disabled attribute of the
\* first one; clock_buttons is -1 when the buttons could not be queried.
GiButtons ==
  /\ pc = "gi_buttons" /\ ~inHandler
  /\ lastEvent' = "body"
  /\ \E o \in PageCall, n \in 0..MaxButtons :
       /\ (o # "ok" => n = 0)
       /\ clock_buttons' = IF o = "ok" THEN n ELSE -1
       /\ gi_status' = ButtonStatus(o, n, clockedIn)
       /\ shots' = IF o = "ok" /\ n >= 2 THEN shots ELSE Shot
  /\ pc' = "gi_result"
  /\ UNCHANGED <<calls, htTrace, gotos, loginDone, runOutcome, tableRows, failures, stayTimedOut, modalCalls, htReturns, first_clock, time_worked, date, dateWarnings, outDisabled,
                 inputVars, objVars, exc, cctx, resume, inHandler, signals, sdVars,
                 lstep, giret, time_left, htVars, clockedIn,
                 closeCalls, stopCalls, sleeps, attempts, notifLog, clicks,
                 released, sessionInitialized, cleanupRaised,
                 closeRaised, loginFailed, exit_code, stdout>>

\* Build the result dict and return it.
GiResult ==
  /\ pc = "gi_result" /\ ~inHandler
  /\ clock_buttons' = -1
  /\ htTrace' = RereadReturned(giret, htTrace)
  /\ pc' = GiReturnTo(giret, action)
  /\ UNCHANGED <<calls, gotos, loginDone, runOutcome, tableRows, failures, stayTimedOut, modalCalls, htReturns, first_clock, time_worked, date, dateWarnings, outDisabled,
                 inputVars, objVars, exc, cctx, resume, inHandler, signals, sdVars,
                 lstep, giVars, htVars, clockedIn, histVars>>

\* The outer except clauses of get_time_info: screenshot, forced
\* notification, raise.
GiExcept ==
  /\ pc = "gi_exc" /\ ~inHandler
  /\ lastEvent' = "body"
  /\ shots' = Shot
  /\ notifLog' = Notified(TRUE, "high", "time")
  /\ pc' = GiRaiseTo(giret)
  /\ UNCHANGED <<calls, htTrace, gotos, loginDone, runOutcome, tableRows, failures, stayTimedOut, modalCalls, htReturns, clock_buttons, first_clock, time_worked, date, dateWarnings, outDisabled,
                 inputVars, objVars, exc, cctx, resume, inHandler, signals, sdVars,
                 lstep, giVars, htVars, clockedIn,
                 closeCalls, stopCalls, sleeps, attempts, clicks,
                 released, sessionInitialized, cleanupRaised,
                 closeRaised, loginFailed, exit_code, stdout>>

\* A status check that forces its summary through.
RsNotifyForced ==
  /\ pc = "rs_notify" /\ ~inHandler
  /\ notifLog' = Notified(TRUE, "default", "status")
  /\ pc' = "run_finally"
  /\ SnapshotDropped
  /\ UNCHANGED <<calls, htTrace, gotos, loginDone, runOutcome, failures, stayTimedOut, modalCalls, htReturns, clock_buttons, outDisabled,
                 inputVars, objVars, exc, cctx, resume, inHandler, signals, sdVars,
                 lstep, giret, gi_status, htVars, clockedIn,
                 closeCalls, stopCalls, sleeps, attempts, shots, clicks, lastEvent,
                 released, sessionInitialized, cleanupRaised,
                 closeRaised, loginFailed, exit_code, stdout>>

\* run_status_check: the summary notification, then return time_info.
RsNotify ==
  /\ pc = "rs_notify" /\ ~inHandler
  /\ notifLog' = IF notifications_enabled
                 THEN Notified(FALSE, "default", "status") ELSE notifLog
  /\ pc' = "run_finally"
  /\ SnapshotDropped
  /\ UNCHANGED <<calls, htTrace, gotos, loginDone, runOutcome, failures, stayTimedOut, modalCalls, htReturns, clock_buttons, outDisabled,
                 inputVars, objVars, exc, cctx, resume, inHandler, signals, sdVars,
                 lstep, giret, gi_status, htVars, clockedIn,
                 closeCalls, stopCalls, sleeps, attempts, shots, clicks, lastEvent,
                 released, sessionInitialized, cleanupRaised,
                 closeRaised, loginFailed, exit_code, stdout>>

\* An auto-out that looks at the status only.
AutoOutDueStatusOnly(status, left) ==
  status = "Clocked In"

\* run_auto_out: status == "Clocked In" and time_left == "00:00:00"
AutoOutDue(status, left) ==
  status = "Clocked In" /\ left = "00:00:00"

RaDecide ==
  /\ pc = "ra_decide" /\ ~inHandler
  /\ IF AutoOutDue(gi_status, time_left)
     THEN /\ pc' = "ht_start"
          /\ ht_action' = "out"
     ELSE /\ pc' = "run_finally"
          /\ UNCHANGED ht_action
  /\ SnapshotDropped
  /\ UNCHANGED <<calls, htTrace, gotos, loginDone, runOutcome, failures, stayTimedOut, modalCalls, htReturns, clock_buttons, outDisabled,
                 inputVars, objVars, exc, cctx, resume, inHandler, signals, sdVars,
                 lstep, giret, gi_status, ht_phase, is_clocked_in, target_action, ht_result,
                 clockedIn, histVars>>


\* ------------------------------------------------ handle_time_tracking
\* A derivation that looks at the state for 'switch' only.
TargetActionNoStateCheck(a, clocked) ==
  CASE a = "in" -> "clock_in"
    [] a = "out" -> "clock_out"
    [] a = "switch" -> IF clocked THEN "clock_out" ELSE "clock_in"
    [] OTHER -> "none"

\* A derivation that forgets the state check for 'in'.
TargetActionAlwaysIn(a, clocked) ==
  CASE a = "in" -> "clock_in"
    [] a = "out" -> IF clocked THEN "clock_out" ELSE "none"
    [] a = "switch" -> IF clocked THEN "clock_out" ELSE "clock_in"
    [] OTHER -> "none"

\* target_action from the requested action and the observed button state.
TargetAction(a, clocked) ==
  CASE a = "in" -> IF ~clocked THEN "clock_in" ELSE "none"
    [] a = "out" -> IF clocked THEN "clock_out" ELSE "none"
    [] a = "switch" -> IF clocked THEN "clock_out" ELSE "clock_in"
    [] OTHER -> "none"

\* A method that goes on to the click whatever the target is.
NoActionNeededNever(t) ==
  FALSE

\* "if target_action:" fails, the else branch returns False.
NoActionNeeded(t) ==
  t = "none"

\* button_to_click = clock_in_button if target_action == 'clock_in' else
\* clock_out_button, as an index into clock_buttons.
ButtonToClick(t) ==
  IF t = "clock_in" THEN 0 ELSE 1

\* new_status = time_info.get('status', 'Unknown')
NewStatus(st) ==
  IF st = "absent" THEN "Unknown" ELSE st

\* Guard on self.page, locate the buttons, read the state, derive the target.
HtStart ==
  /\ pc = "ht_start" /\ ~inHandler
  /\ IF ~page
     THEN /\ exc' = "RuntimeError"
          /\ ht_result' = "raised"
          /\ pc' = "run_except"
          /\ UNCHANGED <<ht_phase, is_clocked_in, target_action, shots, lastEvent, htReturns>>
     ELSE /\ lastEvent' = "body"
          /\ \E o \in PageCall, n \in 0..MaxButtons, a \in CallOutcomes :
               /\ (o # "ok" => n = 0)
               /\ (o # "ok" \/ n < 2 => a = "ok")
               /\ CASE o = "ok" /\ n >= 2 /\ a = "ok" ->
                         /\ is_clocked_in' = clockedIn
                         /\ target_action' = TargetAction(ht_action, clockedIn)
                         /\ ht_phase' = "decided"
                         /\ ht_result' = IF NoActionNeeded(target_action') THEN "false" ELSE "none"
                         /\ htReturns' = IF NoActionNeeded(target_action')
                                         THEN Append(htReturns, FALSE) ELSE htReturns
                         /\ pc' = IF NoActionNeeded(target_action') THEN "run_finally" ELSE "ht_click"
                         /\ UNCHANGED <<exc, shots>>
                    [] OTHER ->
                         /\ exc' = CASE o # "ok" -> o
                                     [] n < 2 -> "ValueError"
                                     [] OTHER -> "PlaywrightError"
                         /\ shots' = IF o = "PlaywrightTimeoutError" \/ (o = "ok" /\ n < 2)
                                     THEN Shot ELSE shots
                         /\ pc' = "ht_outer_exc"
                         /\ UNCHANGED <<ht_phase, is_clocked_in, target_action, ht_result, htReturns>>
  /\ UNCHANGED <<calls, htTrace, gotos, loginDone, runOutcome, tableRows, failures, stayTimedOut, modalCalls, clock_buttons, first_clock, time_worked, date, dateWarnings, outDisabled,
                 inputVars, objVars, cctx, resume, inHandler, signals, sdVars,
                 lstep, giVars, ht_action, clockedIn,
                 closeCalls, stopCalls, sleeps, attempts, notifLog, clicks,
                 released, sessionInitialized, cleanupRaised,
                 closeRaised, loginFailed, exit_code, stdout>>

\* A click that announces success before the status is read again.
HtClickNotifiesEarly(R) ==
  /\ pc = "ht_click" /\ ~inHandler
  /\ lastEvent' = "body"
  /\ modalCalls' = modalCalls + 1
  /\ clicks' = Append(clicks, ButtonToClick(target_action))
  /\ \E o \in PageCall, reacts \in R \cup {FALSE} :
       IF o = "ok"
       THEN /\ reacts \in R
            /\ clockedIn' = IF reacts THEN (target_action = "clock_in") ELSE clockedIn
            /\ ht_phase' = "clicked"
            /\ giret' = "ht"
            /\ pc' = "gi_start"
            /\ htTrace' = htTrace \o <<"modal", "click", "sleep", "notify">>
            /\ notifLog' = Notified(FALSE, "default", target_action)
            /\ UNCHANGED exc
       ELSE /\ ~reacts
            /\ exc' = o
            /\ pc' = "ht_inner_exc"
            /\ htTrace' = htTrace \o <<"modal", "click">>
            /\ UNCHANGED <<clockedIn, ht_phase, giret, notifLog>>
  /\ UNCHANGED <<calls, gotos, loginDone, runOutcome, tableRows, failures, stayTimedOut, htReturns, clock_buttons, first_clock, time_worked, date, dateWarnings, outDisabled,
                 inputVars, objVars, cctx, resume, inHandler, signals, sdVars,
                 lstep, gi_status, time_left, ht_action, is_clocked_in, target_action,
                 ht_result,
                 closeCalls, stopCalls, sleeps, attempts, shots,
                 released, sessionInitialized, cleanupRaised,
                 closeRaised, loginFailed, exit_code, stdout>>

\* remove_blocking_modal(); button_to_click.click(); time.sleep(1); the
\* portal may or may not react to the click.
HtClickOn(R) ==
  /\ pc = "ht_click" /\ ~inHandler
  /\ lastEvent' = "body"
  /\ modalCalls' = modalCalls + 1
  /\ clicks' = Append(clicks, ButtonToClick(target_action))
  /\ \E o \in PageCall, reacts \in R \cup {FALSE} :
       IF o = "ok"
       THEN /\ reacts \in R
            /\ clockedIn' = IF reacts THEN (target_action = "clock_in") ELSE clockedIn
            /\ ht_phase' = "clicked"
            /\ giret' = "ht"
            /\ pc' = "gi_start"
            /\ htTrace' = htTrace \o <<"modal", "click", "sleep">>
            /\ UNCHANGED exc
       ELSE /\ ~reacts
            /\ exc' = o
            /\ pc' = "ht_inner_exc"
            /\ htTrace' = htTrace \o <<"modal", "click">>
            /\ UNCHANGED <<clockedIn, ht_phase, giret>>
  /\ UNCHANGED <<calls, gotos, loginDone, runOutcome, tableRows, failures, stayTimedOut, htReturns, clock_buttons, first_clock, time_worked, date, dateWarnings, outDisabled,
                 inputVars, objVars, cctx, resume, inHandler, signals, sdVars,
                 lstep, gi_status, time_left, ht_action, is_clocked_in, target_action,
                 ht_result,
                 closeCalls, stopCalls, sleeps, attempts, notifLog, shots,
                 released, sessionInitialized, cleanupRaised,
                 closeRaised, loginFailed, exit_code, stdout>>

\* The click against a portal that may or may not have reacted when the
\* status is read again.
HtClick ==
  HtClickOn(BOOLEAN)


\* A verification that treats an unexpected status as an error.
HtVerifyStrict ==
  /\ pc = "ht_verify" /\ ~inHandler
  /\ shots' = IF NewStatus(gi_status) \in {StatusOf(target_action = "clock_in"), "Unknown"}
              THEN shots ELSE Shot
  /\ IF NewStatus(gi_status) \in {StatusOf(target_action = "clock_in"), "Unknown"}
     THEN /\ notifLog' = Notified(FALSE, "default", target_action)
          /\ ht_result' = "true"
          /\ htReturns' = Append(htReturns, TRUE)
          /\ ht_phase' = "verified"
          /\ pc' = "run_finally"
          /\ htTrace' = htTrace \o <<"notify", "return">>
          /\ UNCHANGED exc
     ELSE /\ exc' = "ValueError"
          /\ pc' = "ht_inner_exc"
          /\ UNCHANGED <<notifLog, ht_result, htReturns, ht_phase, htTrace>>
  /\ SnapshotDropped
  /\ UNCHANGED <<calls, gotos, loginDone, runOutcome, failures, stayTimedOut, modalCalls, clock_buttons, outDisabled,
                 inputVars, objVars, cctx, resume, inHandler, signals, sdVars,
                 lstep, giret, gi_status, ht_action, is_clocked_in, target_action, clockedIn,
                 closeCalls, stopCalls, sleeps, attempts, clicks, lastEvent,
                 released, sessionInitialized, cleanupRaised,
                 closeRaised, loginFailed, exit_code, stdout>>

\* After the re-read: compare the status, send the success notification,
\* return True.
HtVerify ==
  /\ pc = "ht_verify" /\ ~inHandler
  /\ shots' = IF NewStatus(gi_status) \in {StatusOf(target_action = "clock_in"), "Unknown"}
              THEN shots ELSE Shot
  /\ notifLog' = Notified(FALSE, "default", target_action)
  /\ ht_result' = "true"
  /\ htReturns' = Append(htReturns, TRUE)
  /\ ht_phase' = "verified"
  /\ pc' = "run_finally"
  /\ SnapshotDropped
  /\ htTrace' = htTrace \o <<"notify", "return">>
  /\ UNCHANGED <<calls, gotos, loginDone, runOutcome, failures, stayTimedOut, modalCalls, clock_buttons, outDisabled,
                 inputVars, objVars, exc, cctx, resume, inHandler, signals, sdVars,
                 lstep, giret, gi_status, ht_action, is_clocked_in, target_action, clockedIn,
                 closeCalls, stopCalls, sleeps, attempts, clicks, lastEvent,
                 released, sessionInitialized, cleanupRaised,
                 closeRaised, loginFailed, exit_code, stdout>>

\* The except clauses of the inner try (click and re-read): the Playwright
\* ones take a screenshot, all send a forced notification and raise.
HtInnerExcept ==
  /\ pc = "ht_inner_exc" /\ ~inHandler
  /\ shots' = IF exc \in PlaywrightErrors THEN Shot ELSE shots
  /\ notifLog' = Notified(TRUE, "high", "clock_inner")
  /\ pc' = "ht_outer_exc"
  /\ UNCHANGED <<calls, htTrace, gotos, loginDone, runOutcome, tableRows, failures, stayTimedOut, modalCalls, htReturns, clock_buttons, first_clock, time_worked, date, dateWarnings, outDisabled,
                 inputVars, objVars, exc, cctx, resume, inHandler, signals, sdVars,
                 lstep, giVars, htVars, clockedIn,
                 closeCalls, stopCalls, sleeps, attempts, clicks, lastEvent,
                 released, sessionInitialized, cleanupRaised,
                 closeRaised, loginFailed, exit_code, stdout>>

\* An outer handler that only re-raises.
HtOuterExceptBare ==
  /\ pc = "ht_outer_exc" /\ ~inHandler
  /\ lastEvent' = "body"
  /\ ht_result' = "raised"
  /\ pc' = "run_except"
  /\ UNCHANGED <<calls, htTrace, gotos, loginDone, runOutcome, tableRows, failures, stayTimedOut, modalCalls, htReturns, clock_buttons, first_clock, time_worked, date, dateWarnings, outDisabled,
                 inputVars, objVars, exc, cctx, resume, inHandler, signals, sdVars,
                 lstep, giVars, ht_action, ht_phase, is_clocked_in, target_action,
                 clockedIn,
                 closeCalls, stopCalls, sleeps, attempts, clicks, shots, notifLog,
                 released, sessionInitialized, cleanupRaised,
                 closeRaised, loginFailed, exit_code, stdout>>

\* The except clause of the outer try: screenshot, forced notification, raise.
HtOuterExcept ==
  /\ pc = "ht_outer_exc" /\ ~inHandler
  /\ shots' = Shot
  /\ lastEvent' = "body"
  /\ notifLog' = Notified(TRUE, "high", "clock_outer")
  /\ ht_result' = "raised"
  /\ pc' = "run_except"
  /\ UNCHANGED <<calls, htTrace, gotos, loginDone, runOutcome, tableRows, failures, stayTimedOut, modalCalls, htReturns, clock_buttons, first_clock, time_worked, date, dateWarnings, outDisabled,
                 inputVars, objVars, exc, cctx, resume, inHandler, signals, sdVars,
                 lstep, giVars, ht_action, ht_phase, is_clocked_in, target_action,
                 clockedIn,
                 closeCalls, stopCalls, sleeps, attempts, clicks,
                 released, sessionInitialized, cleanupRaised,
                 closeRaised, loginFailed, exit_code, stdout>>

\* ------------------------------------------------------ specification
Next ==
  \/ MainNew
  \/ SdStart \/ SdLaunch \/ SdNewPage \/ SdSetTimeout
  \/ SdExcPw \/ SdTdClose \/ SdTdNullB \/ SdTdStop \/ SdTdNullP
  \/ SdBackoff \/ SdExcOther
  \/ LoginStep \/ LoginExcept \/ RemoveBlockingModal
  \/ GiTable \/ GiButtons \/ GiResult \/ GiExcept \/ RsNotify \/ RaDecide
  \/ HtStart \/ HtClick \/ HtVerify \/ HtInnerExcept \/ HtOuterExcept
  \/ RunExcept \/ RunFinally
  \/ ClCheck \/ ClClose \/ ClNullB \/ ClCheckPw \/ ClStop \/ ClNullP \/ ClReturn
  \/ Signal \/ HInst \/ HExit
  \/ MainAfterRun \/ MainExcept \/ MainFinally \/ MainDereg \/ MainExit

Spec == Init /\ [][Next]_vars

\* A run that no signal interrupts: the main thread executes the next
\* statement as soon as the previous one has returned.
Run ==
  \/ MainNew
  \/ SdStart \/ SdLaunch \/ SdNewPage \/ SdSetTimeout
  \/ SdExcPw \/ SdTdClose \/ SdTdNullB \/ SdTdStop \/ SdTdNullP
  \/ SdBackoff \/ SdExcOther
  \/ LoginStep \/ LoginExcept \/ RemoveBlockingModal
  \/ GiTable \/ GiButtons \/ GiResult \/ GiExcept \/ RsNotify \/ RaDecide
  \/ HtStart \/ HtClick \/ HtVerify \/ HtInnerExcept \/ HtOuterExcept
  \/ RunExcept \/ RunFinally
  \/ ClCheck \/ ClClose \/ ClNullB \/ ClCheckPw \/ ClStop \/ ClNullP \/ ClReturn
  \/ MainAfterRun \/ MainExcept \/ MainFinally \/ MainDereg \/ MainExit

\* Every external call returns or times out within its bound, so no
\* statement blocks for ever.
SpecFair == Init /\ [][Run]_vars /\ WF_vars(Run)


\* ------------------------------------- the notifier taken on its own
\* utils.send_notification called with arbitrary arguments: the topic and
\* the enabled flag are fixed per run, each call draws force and the outcome
\* of the POST.
NotifyInit ==
  /\ envTopic = FALSE
  /\ url = TRUE
  /\ username = TRUE
  /\ password = TRUE
  /\ action = "none"
  /\ max_retries = 0
  /\ retry_delay = 0
  /\ quiet = FALSE
  /\ ntfy_topic \in {"", "topic"}
  /\ notifications_enabled \in BOOLEAN
  /\ browser = FALSE
  /\ page = FALSE
  /\ playwright = FALSE
  /\ default_timeout = 0
  /\ instance = FALSE
  /\ pc = "notify"
  /\ exc = "none"
  /\ cctx = "none"
  /\ resume = [pc |-> "none", exc |-> "none"]
  /\ inHandler = FALSE
  /\ signals = 0
  /\ retry_count = 0
  /\ last_exception = "none"
  /\ lstep = 0
  /\ giret = "none"
  /\ gi_status = "none"
  /\ time_left = "none"
  /\ ht_action = "none"
  /\ ht_phase = "none"
  /\ is_clocked_in = FALSE
  /\ target_action = "none"
  /\ ht_result = "none"
  /\ clockedIn = FALSE
  /\ closeCalls = 0
  /\ stopCalls = 0
  /\ sleeps = <<>>
  /\ attempts = 0
  /\ notifLog = <<>>
  /\ shots = 0
  /\ clicks = <<>>
  /\ lastEvent = "none"
  /\ released = FALSE
  /\ sessionInitialized = FALSE
  /\ cleanupRaised = FALSE
  /\ closeRaised = FALSE
  /\ loginFailed = FALSE
  /\ exit_code = 0
  /\ stdout = 0
  /\ failures = <<>>
  /\ stayTimedOut = FALSE
  /\ modalCalls = 0
  /\ htReturns = <<>>
  /\ clock_buttons = -1
  /\ first_clock = "none"
  /\ time_worked = "none"
  /\ date = "none"
  /\ dateWarnings = 0
  /\ runOutcome = "none"
  /\ loginDone = <<>>
  /\ gotos = 0
  /\ htTrace = <<>>
  /\ calls = 0
  /\ outDisabled = FALSE
  /\ tableRows = <<>>

NotifyCall ==
  /\ pc = "notify"
  /\ Len(notifLog) < MaxCalls
  /\ \E force \in BOOLEAN, priority \in {"default", "high"}, o \in PostOutcomes :
       LET r == send_notification(ntfy_topic, notifications_enabled, force, o)
       IN  notifLog' = Append(notifLog,
                              [force |-> force, priority |-> priority,
                               site |-> "call", posted |-> r.posted,
                               topic |-> ntfy_topic,
                               enabled |-> notifications_enabled,
                               outcome |-> IF r.posted THEN o ELSE "none",
                               raised |-> r.raised])
  /\ UNCHANGED <<calls, htTrace, gotos, loginDone, runOutcome, tableRows, failures, stayTimedOut, modalCalls, htReturns, clock_buttons, first_clock, time_worked, date, dateWarnings, outDisabled,
                 inputVars, objVars, ctlVars, sdVars, lstep, giVars, htVars, clockedIn,
                 closeCalls, stopCalls, sleeps, attempts, shots, clicks,
                 lastEvent, released, sessionInitialized, cleanupRaised,
                 closeRaised, loginFailed, exit_code, stdout>>

NextNotify == NotifyCall

SpecNotify == NotifyInit /\ [][NextNotify]_vars


\* --------------------------- one method of an initialised session, alone
\* The state in which a method of a logged-in automation object is about to
\* be called at statement p: the session of setup_driver is in place, nothing
\* has been recorded yet.
CallInit(p) ==
  /\ envTopic = TRUE
  /\ url = TRUE
  /\ username = TRUE
  /\ password = TRUE
  /\ max_retries = 0
  /\ retry_delay = 0
  /\ quiet = FALSE
  /\ ntfy_topic = "topic"
  /\ notifications_enabled = TRUE
  /\ browser = TRUE
  /\ page = TRUE
  /\ playwright = TRUE
  /\ default_timeout = 30000
  /\ instance = TRUE
  /\ pc = p
  /\ exc = "none"
  /\ cctx = "none"
  /\ resume = [pc |-> "none", exc |-> "none"]
  /\ inHandler = FALSE
  /\ signals = 0
  /\ retry_count = 0
  /\ last_exception = "none"
  /\ lstep = 0
  /\ gi_status = "none"
  /\ time_left = "none"
  /\ ht_phase = "none"
  /\ is_clocked_in = FALSE
  /\ target_action = "none"
  /\ ht_result = "none"
  /\ closeCalls = 0
  /\ stopCalls = 0
  /\ sleeps = <<>>
  /\ attempts = 0
  /\ notifLog = <<>>
  /\ shots = 0
  /\ clicks = <<>>
  /\ lastEvent = "none"
  /\ released = FALSE
  /\ sessionInitialized = TRUE
  /\ cleanupRaised = FALSE
  /\ closeRaised = FALSE
  /\ loginFailed = FALSE
  /\ exit_code = 0
  /\ stdout = 0
  /\ failures = <<>>
  /\ stayTimedOut = FALSE
  /\ modalCalls = 0
  /\ htReturns = <<>>
  /\ clock_buttons = -1
  /\ first_clock = "none"
  /\ time_worked = "none"
  /\ date = "none"
  /\ dateWarnings = 0
  /\ runOutcome = "none"
  /\ loginDone = <<>>
  /\ gotos = 0
  /\ htTrace = <<>>
  /\ calls = 0
  /\ tableRows = <<>>

\* ---- get_time_info against every table of up to MaxRows rows
RowSet ==
  {Row("First clock in", "08:05"), Row("All for today", "03:15:00"),
   Row("Time left", "04:45:00"), Row("Current Date", "05/03/2024"),
   Row("Current Date", "bad-date"), Row("Current Date", "05/03"),
   Row("Current Date", "1/2/3/4"),
   Row("Break", "00:30:00"),
   ShortRow, BrokenRow}

AllTables == UNION {[1..n -> RowSet] : n \in 0..MaxRows}

GiInit ==
  /\ CallInit("gi_start")
  /\ action = "status"
  /\ giret = "run"
  /\ ht_action = "none"
  /\ clockedIn \in BOOLEAN
  /\ outDisabled \in BOOLEAN

GiTableAny ==
  GiTableOn(AllTables)

NextGi ==
  \/ GiTableAny \/ GiButtons \/ GiResult \/ GiExcept

SpecGi == GiInit /\ [][NextGi]_vars


\* ---- handle_time_tracking called repeatedly against a portal that reacts
HtInit ==
  /\ CallInit("ht_start")
  /\ ht_action \in ClockActions
  /\ action = ht_action
  /\ giret = "run"
  /\ clockedIn \in BOOLEAN
  /\ outDisabled = FALSE

\* The click against a portal whose clock-in button is disabled after a
\* click on clock-in and enabled after a click on clock-out.
HtClickReacting ==
  HtClickOn({TRUE})

\* The method has returned; it is called again with the same action on the
\* page as it is now.
HtAgain ==
  /\ pc = "run_finally"
  /\ Len(htReturns) < MaxHtCalls
  /\ pc' = "ht_start"
  /\ ht_phase' = "none"
  /\ target_action' = "none"
  /\ ht_result' = "none"
  /\ giret' = "run"
  /\ gi_status' = "none"
  /\ time_left' = "none"
  /\ first_clock' = "none"
  /\ time_worked' = "none"
  /\ date' = "none"
  /\ dateWarnings' = 0
  /\ htTrace' = <<>>
  /\ UNCHANGED <<calls, inputVars, objVars, exc, cctx, resume, inHandler, signals, sdVars,
                 lstep, ht_action, is_clocked_in, pageVars, histVars,
                 failures, stayTimedOut, modalCalls, htReturns, runOutcome, loginDone,
                 gotos, clock_buttons>>

NextHt ==
  \/ HtStart \/ HtClickReacting \/ HtVerify \/ HtInnerExcept \/ HtOuterExcept
  \/ GiTable \/ GiButtons \/ GiResult \/ GiExcept
  \/ HtAgain

SpecHt == HtInit /\ [][NextHt]_vars


\* ------------------------- the public methods called on one object, in turn
\* A caller other than the run_* methods holds an automation object and calls
\* setup_driver, login, get_time_info, handle_time_tracking and cleanup one
\* after the other; a login follows a setup_driver that succeeded, as in
\* _prepare_browser.
MaxLifeCalls == 3

Methods == {"setup_driver", "login", "get_time_info", "handle_time_tracking", "cleanup"}

\* The object as __init__ leaves it: no driver, no browser, no page.
LifeInit ==
  /\ envTopic = TRUE
  /\ url = TRUE
  /\ username = TRUE
  /\ password = TRUE
  /\ action = "none"
  /\ max_retries = 0
  /\ retry_delay = 0
  /\ quiet = FALSE
  /\ ntfy_topic = "topic"
  /\ notifications_enabled = TRUE
  /\ browser = FALSE
  /\ page = FALSE
  /\ playwright = FALSE
  /\ default_timeout = 0
  /\ instance = TRUE
  /\ pc = "idle"
  /\ exc = "none"
  /\ cctx = "none"
  /\ resume = [pc |-> "none", exc |-> "none"]
  /\ inHandler = FALSE
  /\ signals = 0
  /\ retry_count = 0
  /\ last_exception = "none"
  /\ lstep = 0
  /\ giret = "none"
  /\ gi_status = "none"
  /\ time_left = "none"
  /\ ht_action = "none"
  /\ ht_phase = "none"
  /\ is_clocked_in = FALSE
  /\ target_action = "none"
  /\ ht_result = "none"
  /\ clockedIn = FALSE
  /\ closeCalls = 0
  /\ stopCalls = 0
  /\ sleeps = <<>>
  /\ attempts = 0
  /\ notifLog = <<>>
  /\ shots = 0
  /\ clicks = <<>>
  /\ lastEvent = "none"
  /\ released = FALSE
  /\ sessionInitialized = FALSE
  /\ cleanupRaised = FALSE
  /\ closeRaised = FALSE
  /\ loginFailed = FALSE
  /\ exit_code = 0
  /\ stdout = 0
  /\ failures = <<>>
  /\ stayTimedOut = FALSE
  /\ modalCalls = 0
  /\ htReturns = <<>>
  /\ clock_buttons = -1
  /\ first_clock = "none"
  /\ time_worked = "none"
  /\ date = "none"
  /\ dateWarnings = 0
  /\ runOutcome = "none"
  /\ loginDone = <<>>
  /\ gotos = 0
  /\ htTrace = <<>>
  /\ calls = 0
  /\ outDisabled = FALSE
  /\ tableRows = <<>>

\* The first statement of method m.
Entry(m) ==
  CASE m = "setup_driver" -> "sd_start"
    [] m = "login" -> "login"
    [] m = "get_time_info" -> "gi_start"
    [] m = "handle_time_tracking" -> "ht_start"
    [] OTHER -> "cl_check"

\* The caller calls method m of the idle object.  setup_driver is called on
\* an object that holds no browser and no driver.
LifeCall ==
  /\ pc = "idle"
  /\ calls < MaxLifeCalls
  /\ calls' = calls + 1
  /\ \E m \in Methods :
       /\ pc' = Entry(m)
       /\ m = "setup_driver" => ~browser /\ ~playwright
       /\ IF m = "setup_driver"
          THEN /\ max_retries' \in 1..MaxRetriesArg
               /\ retry_delay' \in RetryDelays
               /\ sessionInitialized' = FALSE
          ELSE UNCHANGED <<max_retries, retry_delay, sessionInitialized>>
       /\ lstep' = IF m = "login" THEN 1 ELSE 0
       /\ giret' = IF m = "get_time_info" THEN "run" ELSE "none"
       /\ action' = CASE m = "get_time_info" -> "status"
                      [] m = "handle_time_tracking" -> "switch"
                      [] OTHER -> "none"
       /\ ht_action' = IF m = "handle_time_tracking" THEN "switch" ELSE "none"
       /\ clockedIn' \in IF m \in {"get_time_info", "handle_time_tracking"} /\ browser
                         THEN BOOLEAN ELSE {FALSE}
       /\ cctx' = IF m = "cleanup" THEN "call" ELSE "none"
  /\ ht_phase' = "none"
  /\ target_action' = "none"
  /\ ht_result' = "none"
  /\ htTrace' = <<>>
  /\ gi_status' = "none"
  /\ loginFailed' = FALSE
  /\ UNCHANGED <<envTopic, url, username, password, objVars, exc, resume, inHandler,
                 signals, sdVars, time_left, is_clocked_in, outDisabled, tableRows,
                 closeCalls, stopCalls, sleeps, attempts, notifLog, shots, clicks,
                 lastEvent, released, cleanupRaised, closeRaised, exit_code, stdout,
                 failures, stayTimedOut, modalCalls, htReturns, runOutcome, loginDone,
                 gotos, resultVars>>

\* The method returns to the caller or raises to it; the caller goes on.
LifeReturn ==
  /\ pc \in {"rbm", "rs_notify", "ra_decide", "run_finally", "run_except"}
  /\ pc' = "idle"
  /\ exc' = "none"
  /\ FramesDropped
  /\ UNCHANGED <<envTopic, url, username, password, action, objVars, cctx, resume,
                 inHandler, signals, gi_status, htVars, histVars, modalCalls, htReturns,
                 runOutcome, gotos, htTrace, calls>>

NextLife ==
  \/ LifeCall \/ LifeReturn
  \/ SdStart \/ SdLaunch \/ SdNewPage \/ SdSetTimeout
  \/ SdExcPw \/ SdTdClose \/ SdTdNullB \/ SdTdStop \/ SdTdNullP
  \/ SdBackoff \/ SdExcOther
  \/ LoginStep \/ LoginExcept
  \/ GiTable \/ GiButtons \/ GiResult \/ GiExcept
  \/ HtStart \/ HtClick \/ HtVerify \/ HtInnerExcept \/ HtOuterExcept
  \/ ClCheck \/ ClClose \/ ClNullB \/ ClCheckPw \/ ClStop \/ ClNullP \/ ClReturn

SpecLife == LifeInit /\ [][NextLife]_vars


\* =============================================================== claims

\* C1: handle_time_tracking derives the target transition from the requested
\* action and the observed state of the clock-in button exactly as the table
\* says (in/in -> none, in/out -> clock-in, out/in -> clock-out, out/out ->
\* none, switch/in -> clock-out, switch/out -> clock-in), clicks only button 0
\* for clock-in and only button 1 for clock-out, and returns true exactly
\* when a click was issued (false exactly when none was).
C1_TargetTable ==
  /\ ht_phase # "none" =>
       /\ (ht_action = "in" /\ is_clocked_in => target_action = "none")
       /\ (ht_action = "in" /\ ~is_clocked_in => target_action = "clock_in")
       /\ (ht_action = "out" /\ is_clocked_in => target_action = "clock_out")
       /\ (ht_action = "out" /\ ~is_clocked_in => target_action = "none")
       /\ (ht_action = "switch" /\ is_clocked_in => target_action = "clock_out")
       /\ (ht_action = "switch" /\ ~is_clocked_in => target_action = "clock_in")
  /\ (target_action = "none" => clicks = <<>>)
  /\ (target_action = "clock_in" => \A i \in 1..Len(clicks) : clicks[i] = 0)
  /\ (target_action = "clock_out" => \A i \in 1..Len(clicks) : clicks[i] = 1)
  /\ (ht_result = "true" => Len(clicks) = 1)
  /\ (ht_result = "false" => clicks = <<>>)

C1_Witness ==
  /\ ht_action = "switch"
  /\ is_clocked_in
  /\ ht_result = "true"
  /\ clicks = <<1>>

\* C2: every exit of run_status_check, run_clock_action and run_auto_out
\* (return, expected error, other error, SystemExit raised by the signal
\* handler in the body) has been preceded by a cleanup() call made after the
\* last step of the body.
C2_CleanupOnEveryExit ==
  pc \in {"m_after_run", "m_except"} => lastEvent = "cleanup"

C2_Witness ==
  /\ pc = "m_except"
  /\ exc = "SystemExit"
  /\ sessionInitialized
  /\ cctx = "run"
  /\ lastEvent = "cleanup"

\* C3 (as claimed): when login failed after setup_driver succeeded, the
\* process ends with browser.close() invoked exactly once on the launched
\* browser.
C3_ClosedExactlyOnce ==
  (pc = "done" /\ loginFailed) => closeCalls = 1

\* C4 (as claimed): once a cleanup() call has returned, a further cleanup()
\* call invokes neither browser.close() nor playwright.stop() and leaves
\* browser, page and playwright unchanged.
C4_CleanupIdempotent ==
  [][(released /\ pc \in CleanupLabels) =>
       /\ closeCalls' = closeCalls
       /\ stopCalls' = stopCalls
       /\ browser' = browser
       /\ page' = page
       /\ playwright' = playwright]_vars

\* C5: no error ever escapes cleanup(): not when the browser was never
\* created, not on a partial session, not after an earlier cleanup, not when
\* browser.close() or playwright.stop() raise.
C5_CleanupNeverRaises ==
  ~cleanupRaised

C5_Witness ==
  /\ closeRaised
  /\ released
  /\ pc \in {"m_after_run", "m_except", "m_dereg", "h_exit"}

\* C6 (as claimed): after cleanup() has returned on a session that
\* setup_driver had initialized, browser, page and playwright are all null.
C6_AllNullAfterCleanup ==
  (released /\ sessionInitialized) => (~browser /\ ~page /\ ~playwright)

\* C7 (as claimed): in quiet mode with NTFY_TOPIC configured, every forced
\* notification issued by the automation leads to a delivery attempt.
C7_ForcedDeliveredInQuiet ==
  \A i \in 1..Len(notifLog) :
    (quiet /\ envTopic /\ notifLog[i].force) => notifLog[i].posted

\* C8: send_notification issues the POST if and only if the topic is
\* non-empty and (notifications are enabled or force is set): disabled and
\* not forced never delivers, disabled and forced delivers, no topic never
\* delivers.
C8_DeliveryIff ==
  \A i \in 1..Len(notifLog) :
    LET n == notifLog[i]
    IN  /\ (n.topic = "" => ~n.posted)
        /\ (~n.enabled /\ ~n.force => ~n.posted)
        /\ (n.topic # "" /\ ~n.enabled /\ n.force => n.posted)
        /\ (n.topic # "" /\ n.enabled => n.posted)

C8_Witness ==
  \E i \in 1..Len(notifLog) :
    /\ notifLog[i].topic # ""
    /\ ~notifLog[i].enabled
    /\ notifLog[i].force
    /\ notifLog[i].posted

\* C9: send_notification never raises to its caller, whatever the outcome
\* of the delivery (request error, timeout, bad status, any other error).
C9_SendNeverRaises ==
  \A i \in 1..Len(notifLog) : ~notifLog[i].raised

C9_Witness ==
  \E i \in 1..Len(notifLog) :
    /\ notifLog[i].posted
    /\ notifLog[i].outcome = "Exception"
    /\ ~notifLog[i].raised

\* C10: setup_driver starts at most max_retries attempts; the sleep after
\* the k-th failure is retry_delay * 2^(k-1) and is taken only when
\* k < max_retries, after the browser and the driver of the failed attempt
\* have been torn down; there is no sleep after the last failed attempt.
C10_Backoff ==
  /\ attempts <= max_retries
  /\ Len(sleeps) <= retry_count
  /\ \A k \in 1..Len(sleeps) : k < max_retries /\ sleeps[k] = retry_delay * 2^(k - 1)
  /\ (pc = "sd_start" /\ ~inHandler =>
        /\ Len(sleeps) = retry_count
        /\ attempts = retry_count
        /\ (retry_count > 0 => ~browser /\ ~playwright))
  /\ (pc = "run_except" /\ retry_count > 0 /\ retry_count = max_retries =>
        Len(sleeps) = max_retries - 1)

C10_Witness ==
  /\ pc = "sd_start"
  /\ max_retries = 3
  /\ sleeps = <<5, 10>>
  /\ attempts = 2

\* C11: when all max_retries attempts of setup_driver failed with a
\* Playwright error, exactly one notification has been sent by setup_driver,
\* it is forced and of high priority, and the error raised is the one of the
\* last failed attempt; while attempts are still being retried, and after an
\* attempt succeeded, setup_driver has sent no notification.
C11_ExhaustionNotified ==
  LET setup == SelectSeq(notifLog, LAMBDA n : n.site = "setup")
  IN  /\ (pc \in SdLabels => setup = <<>>)
      /\ (sessionInitialized => setup = <<>>)
      /\ (pc = "run_except" /\ max_retries > 0 /\ Len(failures) = max_retries =>
            /\ Len(setup) = 1
            /\ setup[1].force
            /\ setup[1].priority = "high"
            /\ exc = failures[Len(failures)])

C11_Witness ==
  /\ pc = "run_except"
  /\ max_retries = 2
  /\ failures = <<"PlaywrightTimeoutError", "PlaywrightError">>
  /\ exc = "PlaywrightError"
  /\ Len(notifLog) = 1
  /\ notifLog[1].force

\* C12 (as claimed): when setup_driver returns normally, playwright, browser
\* and page are set and the default timeout is 30 s; when it exits by
\* raising, browser and playwright are null.
C12_NoHalfInitialized ==
  /\ (pc = "login" /\ lstep = 1 /\ ~inHandler =>
        playwright /\ browser /\ page /\ default_timeout = 30000)
  /\ (pc = "run_except" /\ ~sessionInitialized => ~browser /\ ~playwright)

\* C13: once the wait for the 'Stay signed in?' control has timed out, login
\* goes on with the two application-ready waits without any screenshot,
\* notification or pending error, and it can only fail at one of these two
\* waits: it returns normally whenever both markers appear.
C13_StaySignedInOptional ==
  stayTimedOut =>
    /\ (pc \in {"login", "rbm"} /\ ~inHandler =>
          /\ shots = 0
          /\ notifLog = <<>>
          /\ exc = "none"
          /\ ~loginFailed
          /\ (pc = "login" =>
                LoginSteps[lstep] \in {"wait_app_root", "wait_app_clock"}))
    /\ (pc = "lg_exc" =>
          LoginSteps[lstep] \in {"wait_app_root", "wait_app_clock"})

C13_Witness ==
  /\ stayTimedOut
  /\ pc = "rbm"
  /\ ~inHandler
  /\ shots = 0
  /\ notifLog = <<>>

\* C14 (as claimed): a timeout at a login step other than the optional one
\* ends login with one screenshot, one forced high-priority notification and
\* a timeout error raised to the caller, and without any further login step.
C14_LoginTimeoutFatal ==
  [][(pc = "lg_exc" /\ exc = "PlaywrightTimeoutError" /\ ~OptionalStep(lstep)
      /\ pc' # "h_inst") =>
       /\ pc' = "run_except"
       /\ shots' = shots + 1
       /\ Len(notifLog') = Len(notifLog) + 1
       /\ notifLog'[Len(notifLog')].force
       /\ notifLog'[Len(notifLog')].priority = "high"
       /\ exc' = "PlaywrightTimeoutError"]_vars

\* C15: when the derived target is none, handle_time_tracking returns false
\* and has done nothing beyond reading the button state: no click, no modal
\* removal beyond the one of _prepare_browser, no second reading of the
\* status, no screenshot and no notification of any kind.
C15_NoOpSilent ==
  (ht_phase # "none" /\ target_action = "none") =>
    /\ ht_result = "false"
    /\ htReturns = <<FALSE>>
    /\ clicks = <<>>
    /\ modalCalls = 1
    /\ gi_status = "none"
    /\ giret # "ht"
    /\ shots = 0
    /\ notifLog = <<>>

C15_Witness ==
  /\ ht_action = "in"
  /\ is_clocked_in
  /\ target_action = "none"
  /\ ht_result = "false"
  /\ pc = "m_after_run"

\* C18: get_time_info derives the status from the first clock button alone:
\* with two or more buttons it is 'Clocked In' when that button is disabled
\* and 'Clocked Out' when it is not, whatever the table rows and the second
\* button are; with fewer than two buttons it is 'Unknown', one screenshot
\* has been taken and no error is pending.
C18_StatusFromFirstButton ==
  pc = "gi_result" =>
    /\ (clock_buttons >= 2 /\ clockedIn => gi_status = "Clocked In")
    /\ (clock_buttons >= 2 /\ ~clockedIn => gi_status = "Clocked Out")
    /\ (clock_buttons >= 2 => shots = 0)
    /\ (clock_buttons \in {0, 1} =>
          gi_status = "Unknown" /\ shots = 1 /\ exc = "none")

C18_Witness ==
  /\ pc = "gi_result"
  /\ clock_buttons = 1
  /\ gi_status = "Unknown"
  /\ shots = 1
  /\ exc = "none"

\* C19 (as claimed): get_time_info raises exactly when the clock buttons
\* cannot be read: reading the status table never makes it raise, and a
\* failure to read the buttons always does.
C19_RaisesIffButtonsUnreadable ==
  [][/\ (pc = "gi_start" /\ page /\ pc' # "h_inst" => pc' # "gi_exc")
     /\ (pc = "gi_buttons" /\ pc' # "h_inst" /\ clock_buttons' = -1 => pc' = "gi_exc")]_vars

\* C20 (as claimed): whatever the table holds, the value get_time_info
\* returns has exactly the keys status, first_clock, time_worked, time_left
\* and date, and each of the last four is the value of the last well-formed
\* row with its label (the date normalised), or null without such a row.
C20_FiveKeysAlways ==
  LET good(l) == {i \in 1..Len(tableRows) :
                    /\ tableRows[i].label = l
                    /\ tableRows[i].cells >= 2
                    /\ ~tableRows[i].raises}
      last(S) == CHOOSE i \in S : \A j \in S : j <= i
      field(l) == IF good(l) = {} THEN "absent" ELSE tableRows[last(good(l))].value
      normal(v) == IF v = "05/03/2024" THEN "2024-03-05" ELSE v
  IN  pc \in {"rs_notify", "ra_decide", "ht_verify"} =>
        /\ ResultKeys(tableRows) = {"status", "first_clock", "time_worked", "time_left", "date"}
        /\ gi_status # "absent"
        /\ first_clock = field("First clock in")
        /\ time_worked = field("All for today")
        /\ time_left = field("Time left")
        /\ date = normal(field("Current Date"))

\* C16: with action 'in' or 'out', against a portal that reacts to the click
\* and is otherwise unchanged, a call that starts from the opposite state
\* returns true, and the call after one that returned true returns false;
\* the two calls have issued exactly one click.
C16_TwiceClicksOnce ==
  ht_action \in {"in", "out"} =>
    /\ (Len(htReturns) = 1 /\ pc = "run_finally" /\ is_clocked_in # (ht_action = "in") =>
          htReturns[1])
    /\ (Len(htReturns) >= 2 /\ htReturns[1] =>
          ~htReturns[2] /\ Len(clicks) = 1)

C16_Witness ==
  /\ ht_action = "in"
  /\ htReturns = <<TRUE, FALSE>>
  /\ clicks = <<0>>
  /\ clockedIn

\* C17: whatever status the snapshot taken after the click shows, expected,
\* opposite or unknown, handle_time_tracking goes on to send the non-forced
\* success notification for the action performed and returns true with no
\* error raised.
C17_MismatchNotEscalated ==
  [][(pc = "ht_verify" /\ pc' # "h_inst") =>
       /\ pc' = "run_finally"
       /\ ht_result' = "true"
       /\ exc' = "none"
       /\ Len(notifLog') = Len(notifLog) + 1
       /\ ~notifLog'[Len(notifLog')].force
       /\ notifLog'[Len(notifLog')].site = target_action]_vars

C17_Witness ==
  /\ ht_phase = "verified"
  /\ target_action = "clock_in"
  /\ gi_status = "Clocked Out"
  /\ ht_result = "true"
  /\ exc = "none"
  /\ shots = 1
  /\ Len(notifLog) = 1
  /\ ~notifLog[1].force

\* C21 (as claimed): the status of every snapshot that get_time_info builds
\* is 'Clocked In', 'Clocked Out' or 'Unknown', whatever happens while the
\* clock buttons are read.
C21_StatusOneOfThree ==
  pc = "gi_result" => gi_status \in {"Clocked In", "Clocked Out", "Unknown"}

\* C22: the row labelled 'Current Date' stores 05/03/2024 as 2024-03-05; a
\* value that does not split into exactly three parts at '/' is stored
\* unchanged with one warning logged for it, no error is pending, and the
\* rows after it are stored as they are.
C22_DateNormalized ==
  LET good(l) == {i \in 1..Len(tableRows) :
                    /\ tableRows[i].label = l
                    /\ tableRows[i].cells >= 2
                    /\ ~tableRows[i].raises}
      last(S) == CHOOSE i \in S : \A j \in S : j <= i
      dates == good("Current Date")
      malformed == {i \in dates : tableRows[i].value \in {"bad-date", "05/03", "1/2/3/4"}}
      shown == tableRows[last(dates)].value
  IN  pc \in {"gi_buttons", "gi_result"} =>
        /\ exc = "none"
        /\ dateWarnings = Cardinality(malformed)
        /\ (dates # {} /\ shown = "05/03/2024" => date = "2024-03-05")
        /\ (dates # {} /\ last(dates) \in malformed => date = shown)
        /\ \A l \in {"First clock in", "All for today", "Time left"} :
             \A i \in good(l) :
               (i = last(good(l)) /\ \E j \in malformed : j < i) =>
                 TimesOf(tableRows)[l] = tableRows[i].value

C22_Witness ==
  /\ pc = "gi_result"
  /\ tableRows = <<Row("Current Date", "05/03/2024"), Row("Current Date", "bad-date"),
                   Row("Time left", "04:45:00")>>
  /\ date = "bad-date"
  /\ dateWarnings = 1
  /\ time_left = "04:45:00"
  /\ exc = "none"

\* C23: run_auto_out goes on to handle_time_tracking('out') exactly when the
\* snapshot it has just read has status 'Clocked In' and time_left
\* '00:00:00'; otherwise it proceeds to its cleanup with no click and no
\* notification, and a run that has read a snapshot without actuating has
\* clicked nothing and notified nothing; once the actuation is decided, no
\* statement of setup_driver or login runs again.
C23_AutoOutIff ==
  [][/\ (pc = "ra_decide" /\ pc' # "h_inst") =>
          IF gi_status = "Clocked In" /\ time_left = "00:00:00"
          THEN /\ pc' = "ht_start" /\ ht_action' = "out"
               /\ browser' = browser /\ page' = page /\ playwright' = playwright
          ELSE /\ pc' = "run_finally" /\ ht_action' # "out"
               /\ clicks' = clicks /\ notifLog' = notifLog
     /\ (action' = "auto-out" /\ ht_action' # "out" /\ gi_status' # "none") =>
          clicks' = <<>> /\ notifLog' = <<>>
     /\ (action = "auto-out" /\ ht_action = "out") =>
          pc' \notin SdLabels \cup {"login", "lg_exc", "rbm"}]_vars

C23_Witness ==
  /\ action = "auto-out"
  /\ ht_action = "out"
  /\ ht_result = "true"
  /\ clicks = <<1>>
  /\ signals = 0
  /\ pc = "done"

\* C24: when run_status_check comes to its summary, it issues one non-forced
\* request to the notifier if notifications are enabled and none at all if
\* they are disabled; a summary request exists only in a status run whose
\* setup, login and status read succeeded with notifications enabled, and a
\* status run that returns normally with notifications enabled has issued it.
C24_SummaryIff ==
  [][LET summary(log) == {i \in 1..Len(log) : log[i].site = "status"}
     IN  /\ (pc = "rs_notify" /\ pc' # "h_inst") =>
              IF notifications_enabled
              THEN notifLog' = Append(notifLog,
                                      [force |-> FALSE, priority |-> "default",
                                       site |-> "status", posted |-> TRUE])
              ELSE notifLog' = notifLog
         /\ \A i \in summary(notifLog') :
              /\ ~notifLog'[i].force
              /\ action' = "status"
              /\ notifications_enabled'
              /\ sessionInitialized'
              /\ ~loginFailed'
              /\ gi_status' # "none"
         /\ (pc' = "m_after_run" /\ action' = "status" /\ notifications_enabled') =>
              summary(notifLog') # {}
         /\ (pc' = "m_after_run" /\ action' = "status" /\ ~notifications_enabled') =>
              notifLog' = <<>>
    ]_vars

C24_Witness ==
  /\ pc = "m_after_run"
  /\ action = "status"
  /\ ~notifications_enabled
  /\ envTopic
  /\ gi_status = "Clocked In"
  /\ notifLog = <<>>

\* C25 (as claimed): a run during which SIGINT was delivered ends with exit
\* code 130, not with 0 and not with 1.
C25_InterruptExits130 ==
  (pc = "done" /\ signals > 0) => exit_code = 130

\* C26: a run that is not interrupted ends with exit code 0 when the run_*
\* method returned and with exit code 1 when it raised: a failed setup, a
\* failed login, a status read that raised and an actuation that raised all
\* give 1, whatever the type of the error; a clock action that found nothing
\* to do and an auto-out that did not actuate give 0.
C26_ExitCodes ==
  (pc = "done" /\ signals = 0 /\ runOutcome # "none") =>
    /\ exit_code \in {0, 1}
    /\ (runOutcome = "returned" <=> exit_code = 0)
    /\ (runOutcome = "raised" <=> exit_code = 1)
    /\ (~sessionInitialized \/ loginFailed \/ ht_result = "raised" => exit_code = 1)
    /\ ((\E i \in 1..Len(notifLog) : notifLog[i].site = "time") => exit_code = 1)
    /\ (ht_result = "false" => exit_code = 0)
    /\ (action = "auto-out" /\ ht_action # "out" /\ gi_status # "none" => exit_code = 0)

C26_Witness ==
  /\ pc = "done"
  /\ signals = 0
  /\ action = "in"
  /\ is_clocked_in
  /\ ht_result = "false"
  /\ runOutcome = "returned"
  /\ clicks = <<>>
  /\ exit_code = 0

\* C27: when the portal URL, the username or the password is missing, no
\* statement of setup_driver or of an operation is ever reached: no driver
\* and no browser is started, nothing is sent to the notifier, the instance
\* is not registered, and a run that is not interrupted ends with exit code 1.
C27_MissingCredentialsExit ==
  (~url \/ ~username \/ ~password) =>
    /\ pc \in {"m_new", "m_finally", "m_dereg", "m_exit", "done", "h_inst", "h_exit"}
    /\ ~playwright /\ ~browser /\ ~page /\ ~instance
    /\ attempts = 0
    /\ notifLog = <<>>
    /\ closeCalls = 0 /\ stopCalls = 0
    /\ (pc = "done" /\ signals = 0 => exit_code = 1)

C27_Witness ==
  /\ url /\ username /\ ~password
  /\ pc = "done"
  /\ signals = 0
  /\ exit_code = 1
  /\ attempts = 0
  /\ notifLog = <<>>

\* C28 (as claimed): standard output is written only by the status
\* operation, only after run_status_check has returned, and then exactly
\* once; a run of another operation, a run that failed and a run during
\* which a signal was delivered have written nothing to it.
C28_StdoutOnlyStatus ==
  /\ stdout \in {0, 1}
  /\ (stdout > 0 => action = "status" /\ runOutcome = "returned")
  /\ (pc = "done" /\ action = "status" /\ runOutcome = "returned" => stdout = 1)
  /\ (pc = "done" /\ (exit_code # 0 \/ signals > 0) => stdout = 0)

\* C29: login runs its page calls in one order: the mandatory calls that
\* have succeeded are always an initial part of navigate, wait and fill
\* username, wait and click Next, wait and fill password, wait and click
\* Submit, wait app-root, wait app-clock; a fill or click runs only directly
\* after its own wait succeeded, the password is filled only after Next was
\* clicked, the 'stay signed in' wait and click come only between Submit and
\* app-root, and login returns only with all mandatory calls succeeded.
C29_LoginOrder ==
  LET Mandatory == <<"goto", "wait_loginfmt", "fill_loginfmt", "wait_next", "click_next",
                     "wait_password", "fill_password", "wait_submit", "click_submit",
                     "wait_app_root", "wait_app_clock">>
      WaitOf == [fill_loginfmt |-> "wait_loginfmt", click_next |-> "wait_next",
                 fill_password |-> "wait_password", click_submit |-> "wait_submit",
                 click_stay |-> "wait_stay"]
      IsMandatory(x) == x \notin {"wait_stay", "click_stay"}
      must == SelectSeq(loginDone, IsMandatory)
      step == LoginSteps[lstep]
      did(x) == \E i \in 1..Len(loginDone) : loginDone[i] = x
  IN  /\ must = SubSeq(Mandatory, 1, Len(must))
      /\ \A i \in 1..Len(loginDone) :
           /\ loginDone[i] \in DOMAIN WaitOf =>
                i > 1 /\ loginDone[i - 1] = WaitOf[loginDone[i]]
           /\ loginDone[i] = "wait_stay" => i > 1 /\ loginDone[i - 1] = "click_submit"
      /\ (pc = "login" /\ lstep > 0) =>
           /\ (step \in DOMAIN WaitOf =>
                 loginDone # <<>> /\ loginDone[Len(loginDone)] = WaitOf[step])
           /\ (step = "fill_password" => did("click_next"))
           /\ (IsMandatory(step) => step = Mandatory[Len(must) + 1])
      /\ pc = "rbm" => must = Mandatory

C29_Witness ==
  /\ pc = "rbm"
  /\ loginDone = <<"goto", "wait_loginfmt", "fill_loginfmt", "wait_next", "click_next",
                   "wait_password", "fill_password", "wait_submit", "click_submit",
                   "wait_stay", "wait_app_root", "wait_app_clock">>

\* C30: the statements of get_time_info and handle_time_tracking are entered
\* only from the end of _prepare_browser, which is entered only from the
\* last page call of login, which is entered only from the last statement
\* of a setup_driver attempt that succeeded; while one of them runs, setup
\* has succeeded and login has not failed; a run whose setup or login
\* failed never reads the status and never actuates.
C30_PrepareFirst ==
  [][LET Body == {"gi_start", "gi_buttons", "gi_result", "gi_exc", "rs_notify", "ra_decide",
                 "ht_start", "ht_click", "ht_verify", "ht_inner_exc", "ht_outer_exc"}
     IN  /\ (pc' \in Body /\ pc \notin Body) => pc = "rbm"
         /\ (pc' = "rbm" /\ pc # "rbm") =>
              pc = "login" /\ LoginSteps[lstep] = "wait_app_clock" /\ ~loginFailed
         /\ (pc' = "login" /\ pc # "login") =>
              pc = "sd_timeout" /\ browser /\ page /\ playwright
         /\ pc' \in Body => sessionInitialized' /\ ~loginFailed' /\ page'
         /\ (loginFailed' \/ ~sessionInitialized') =>
              /\ pc' \notin Body
              /\ gi_status' = "none" /\ ht_phase' = "none" /\ ht_result' = "none"
              /\ clicks' = <<>>
    ]_vars

C30_Witness ==
  /\ loginFailed
  /\ sessionInitialized
  /\ pc = "done"
  /\ signals = 0
  /\ exit_code = 1
  /\ gi_status = "none"
  /\ ht_phase = "none"
  /\ clicks = <<>>

\* C31: only browser initialization is retried.  Within one run the portal
\* navigation happens at most once and the steps of login only move forward,
\* so no credential step is submitted twice; a clock button is clicked at most
\* once; after a login failure no step of login runs again, and after a
\* failure of handle_time_tracking no step of it (locating, clicking,
\* re-reading) runs again.
C31_NoRetryOutsideSetup ==
  [][LET LoginBody == {"login", "rbm"}
         HtBody == {"ht_start", "ht_click", "ht_verify", "gi_start", "gi_buttons",
                    "gi_result"}
     IN  /\ gotos' <= 1
         /\ Len(clicks') <= 1
         /\ (pc = "login" /\ pc' = "login") => lstep' > lstep
         /\ (pc' = "login" /\ pc # "login") => gotos = 0 /\ lstep' = 1
         /\ (loginFailed \/ pc = "lg_exc") =>
              pc' \notin LoginBody /\ gotos' = gotos
         /\ (ht_result = "raised" \/ pc \in {"ht_inner_exc", "ht_outer_exc"}) =>
              pc' \notin HtBody /\ clicks' = clicks
    ]_vars

C31_Witness ==
  /\ ht_result = "raised"
  /\ Len(clicks) = 1
  /\ gotos = 1
  /\ ~loginFailed
  /\ pc = "done"

\* C32: when a transition is required, the inner try of handle_time_tracking
\* runs modal dismissal, click, settle delay, status re-read, success
\* notification, return true, in this order: what has been executed is always
\* a prefix of that sequence, the re-read is running only after click and
\* delay, the success notification has been requested only after the re-read
\* returned, and true is returned exactly at the end of the sequence.
C32_ActuationOrder ==
  LET Order == <<"modal", "click", "sleep", "reread", "reread_ret", "notify", "return">>
      Success == {i \in 1..Len(notifLog) : notifLog[i].site \in {"clock_in", "clock_out"}}
  IN  /\ Len(htTrace) <= Len(Order)
      /\ \A i \in 1..Len(htTrace) : htTrace[i] = Order[i]
      /\ (Len(htTrace) >= 2 <=> Len(clicks) = 1)
      /\ (pc \in {"gi_start", "gi_buttons", "gi_result", "gi_exc"} /\ giret = "ht") =>
           Len(htTrace) \in {3, 4}
      /\ pc = "ht_verify" => Len(htTrace) = 5
      /\ (Success # {} <=> Len(htTrace) >= 6)
      /\ Cardinality(Success) <= 1
      /\ \A i \in Success : ~notifLog[i].force
      /\ (ht_result = "true" <=> htTrace = Order)
      /\ (target_action = "none" => htTrace = <<>>)

C32_Witness ==
  /\ htTrace = <<"modal", "click", "sleep", "reread", "reread_ret", "notify", "return">>
  /\ ht_result = "true"
  /\ pc = "done"
  /\ exit_code = 0

\* C33: once the page exists, an error leaves handle_time_tracking only
\* through its outer except clause, and the step that lets it escape has
\* captured a screenshot and requested a forced high-priority notification:
\* every failure of the body (locating the buttons, fewer than two buttons,
\* the click, the re-read) is routed to a handler of the method first.
C33_DiagnosticsBeforeEscape ==
  [][LET HtBody == {"ht_start", "ht_click", "ht_verify"}
         HtHandlers == {"ht_inner_exc", "ht_outer_exc"}
         Reread == pc \in {"gi_start", "gi_buttons", "gi_result", "gi_exc"} /\ giret = "ht"
     IN  page /\ ~inHandler' =>
           /\ (pc \in HtBody /\ exc' # "none") => pc' \in HtHandlers
           /\ (Reread /\ exc' # "none") => pc' \in {"gi_exc", "ht_inner_exc"}
           /\ pc = "ht_inner_exc" => pc' = "ht_outer_exc" /\ exc' = exc
           /\ (pc \in HtBody \cup HtHandlers \/ Reread) /\ pc' = "run_except" =>
                /\ pc = "ht_outer_exc"
                /\ exc' = exc /\ exc # "none"
                /\ shots' = shots + 1
                /\ Len(notifLog') = Len(notifLog) + 1
                /\ notifLog'[Len(notifLog')].force
                /\ notifLog'[Len(notifLog')].priority = "high"
           /\ (ht_result' = "raised" /\ ht_result # "raised") => pc = "ht_outer_exc"
    ]_vars

C33_Witness ==
  /\ page
  /\ ht_result = "raised"
  /\ exc = "Exception"
  /\ htTrace = <<"modal", "click">>
  /\ pc = "run_except"
  /\ shots = 1
  /\ Len(notifLog) = 2

\* C34: login, get_time_info and handle_time_tracking never touch a page
\* when there is no live session (setup_driver has not succeeded, or cleanup
\* has closed the browser since): called in such a state, each raises
\* RuntimeError and performs no page operation, takes no screenshot and
\* clicks nothing.
C34_GuardedBySession ==
  [][LET Live == sessionInitialized /\ browser
     IN  (pc \in {"login", "gi_start", "ht_start"} /\ ~Live) =>
           /\ exc' = "RuntimeError"
           /\ gotos' = gotos
           /\ modalCalls' = modalCalls
           /\ shots' = shots
           /\ clicks' = clicks
    ]_vars

\* C35: when the run_* operation has exited, every driver that setup_driver
\* started has had stop() called on it and every browser it launched has had
\* close() called on it: no driver is left that was never stopped, no
\* browser that was never closed, also when only the driver was created.
C35_StoppedAtExit ==
  runOutcome # "none" =>
    /\ ~(playwright /\ stopCalls = 0)
    /\ ~(browser /\ closeCalls = 0)

\* C36: at most one browser launched by the run is open at any moment.  A
\* browser is launched only while the object holds none; the object lets go
\* of a browser only after close() was called on it and of a driver only
\* after stop() was called on it; so when a retry of setup_driver starts, the
\* browser and the driver of the failed attempt have been closed.
C36_OneBrowser ==
  [][/\ (pc = "sd_launch" /\ ~inHandler) => ~browser
     /\ (browser /\ ~browser') => closeCalls' >= 1
     /\ (playwright /\ ~playwright') => stopCalls' >= 1
     /\ (pc' = "sd_start" /\ retry_count' > 0) => ~browser' /\ ~playwright'
    ]_vars

\* C37: when every external call returns or times out, every run_* call
\* terminates: once setup_driver has been entered, cleanup is reached, and
\* once cleanup runs, the run_* method returns or raises to main (or the
\* process ends); on the way there are at most max_retries launch attempts,
\* one navigation of login and one click.
C37_Terminates ==
  /\ (pc = "sd_start") ~> (pc \in CleanupLabels)
  /\ (pc \in CleanupLabels) ~> (runOutcome # "none" \/ pc = "done")
  /\ (pc = "m_new") ~> (pc = "done")
  /\ [](attempts <= max_retries /\ gotos <= 1 /\ Len(clicks) <= 1)

C37_Witness ==
  /\ pc = "done"
  /\ runOutcome = "returned"
  /\ lastEvent = "cleanup"
  /\ Len(clicks) = 1
  /\ signals = 0

C39_OtherErrorNotRetried ==
  [][LET SdTry == {"sd_start", "sd_launch", "sd_newpage", "sd_timeout"}
     IN  /\ (pc \in SdTry /\ pc' = "sd_exc_pw") =>
              /\ last_exception' \in PlaywrightErrors
              /\ failures' = Append(failures, last_exception')
         /\ (pc \in SdTry /\ pc' = "sd_exc_other") =>
              /\ failures' = failures
              /\ last_exception' = last_exception
         /\ (pc = "sd_exc_other" /\ ~inHandler') =>
              /\ pc' = "run_except"
              /\ exc' = "Exception"
              /\ Len(notifLog') = Len(notifLog) + 1
              /\ notifLog'[Len(notifLog')].force
              /\ notifLog'[Len(notifLog')].priority = "high"
              /\ sleeps' = sleeps
              /\ attempts' = attempts
              /\ retry_count' = retry_count
              /\ closeCalls' = closeCalls
              /\ stopCalls' = stopCalls
              /\ browser' = browser
              /\ playwright' = playwright
         /\ (pc' \in SdLabels /\ pc \notin SdLabels) =>
              pc \in {"m_new", "h_exit"} /\ exc # "Exception"
    ]_vars

C39_Witness ==
  /\ pc = "run_except"
  /\ exc = "Exception"
  /\ retry_count = 1
  /\ sleeps = <<5>>
  /\ attempts = 2
  /\ browser
  /\ playwright
  /\ closeCalls = 0
  /\ stopCalls = 0
  /\ Len(notifLog) = 1
  /\ notifLog[1].force

\* C40: the diagnostics of login's timeout handler are best-effort: whatever
\* happens to the screenshot and to the retrieval of the page content, the
\* handler requests the forced high-priority notification and the error that
\* login raises is still the timeout error.
C40_TimeoutDiagnosticsBestEffort ==
  [][(pc = "lg_exc" /\ exc = "PlaywrightTimeoutError" /\ ~inHandler') =>
       /\ exc' = "PlaywrightTimeoutError"
       /\ notifLog' # notifLog
       /\ notifLog'[Len(notifLog')].site = "login"
       /\ notifLog'[Len(notifLog')].force
       /\ notifLog'[Len(notifLog')].priority = "high"
    ]_vars

====
